---- MODULE Spec2Model ----
(***************************************************************************)
(* hrmm: the fixed-capacity ring buffer of internal/buffer and the         *)
(* dashboard poll loop of cmd/graph (bubbletea model: Init / Update).      *)
(*                                                                         *)
(* Nine specifications share the definitions below:                        *)
(*   SpecRB      a single RingBuffer driven by Push, with the history of   *)
(*               pushed values kept beside it;                             *)
(*   SpecStats   the statistics of a RingBuffer, on buffers filled with    *)
(*               chosen sequences of values;                               *)
(*   SpecCalls   a RingBuffer whose methods a caller calls in any order,   *)
(*               keeping and altering the slice Values() returned;         *)
(*   Spec        the dashboard poll loop: the bubbletea runtime (timers,   *)
(*               fetch goroutines, pending messages) around Update;        *)
(*   SpecUpdate  dashboardModel.Update as a function of (model, message),  *)
(*               applied to models and messages drawn from bounded sets;   *)
(*   SpecSelect  the selection screen the program opens with, up to the    *)
(*               dashboardModel that "enter" builds;                       *)
(*   SpecPicker  the selection screen of cmd/graph.go, whose list can be   *)
(*               filtered, up to the graph view that "enter" opens;        *)
(*   SpecFetch   fetch cycles over the fetchers, each handled by Update;   *)
(*   SpecOverlap the poll loop with every fetch numbered in issue order.   *)
(***************************************************************************)
EXTENDS Integers, Sequences, FiniteSets, TLC

\* ------------------------------------------------------------------ bounds

\* SpecRB: capacities 1..MaxCapacity, at most MaxPushes calls of Push.
MaxCapacity == 3
MaxPushes == 5

\* Spec, SpecUpdate: the capacity of each series buffer. newDashboardModel
\* passes 30 to buffer.New; the model runs the same code on a smaller buffer,
\* so that wrap-around happens within a few fetch cycles.
BufferCapacity == 2

\* Spec: m.interval, the poll interval, in clock steps (at least 1).
Interval == 2

\* SpecUpdate: a batch (metricsMsg.data) holds at most MaxBatch entries.
MaxBatch == 2

\* SpecStats: every sequence of up to MaxStatLen values is pushed into a
\* buffer of capacity MaxCapacity (it wraps) and one of capacity
\* StatCapacity (it never wraps).
MaxStatLen == 4
StatCapacity == 10

\* The monotonic sequences Trend is asked about are TrendLen values long.
TrendLen == 5

\* The values 1..ExampleLen are pushed, in ascending and descending order.
ExampleLen == 10

\* ------------------------------------------------------------- float64

\* A float64 is a record: a class and, for a finite value, its number, the
\* fraction num/den in lowest terms with den > 0. NaN and the two infinities
\* are values of their own, as in IEEE 754. Arithmetic on finite values is
\* exact up to the largest finite value: a sum, product or quotient beyond
\* MaxFloat64 in magnitude is an infinity, as the hardware rounds it.
\* Rounding to 53 bits and the sign of zero are left out.
Fin(n) == [cls |-> "finite", num |-> n, den |-> 1]
NaN == [cls |-> "NaN", num |-> 0, den |-> 1]
PosInf == [cls |-> "+Inf", num |-> 0, den |-> 1]
NegInf == [cls |-> "-Inf", num |-> 0, den |-> 1]

\* math.IsNaN(f)
IsNaN(f) == f.cls = "NaN"

\* math.IsInf(f, sign): sign > 0 asks for +Inf, sign < 0 for -Inf, 0 for either.
IsInf(f, sign) ==
    \/ sign >= 0 /\ f.cls = "+Inf"
    \/ sign <= 0 /\ f.cls = "-Inf"

Abs(n) == IF n < 0 THEN -n ELSE n

RECURSIVE GCD(_, _)
GCD(a, b) == IF b = 0 THEN a ELSE GCD(b, a % b)

\* The finite float64 n/d (d # 0), in lowest terms.
Rat(n, d) ==
    LET g == GCD(Abs(n), Abs(d))
        s == IF d < 0 THEN -1 ELSE 1
    IN  [cls |-> "finite", num |-> s * (n \div g), den |-> s * (d \div g)]

\* -1, 0 or 1: the sign of a float64 that is not NaN.
Sign(f) ==
    CASE f.cls = "+Inf" -> 1
      [] f.cls = "-Inf" -> -1
      [] OTHER -> IF f.num > 0 THEN 1 ELSE IF f.num < 0 THEN -1 ELSE 0

\* The infinity of sign s (s # 0).
Inf(s) == IF s > 0 THEN PosInf ELSE NegInf

\* math.MaxFloat64, the largest finite float64 (1.797e308), scaled down.
MaxFloat64 == 10000

\* The float64 an exact result f is stored as: an infinity when f is beyond
\* the largest finite value.
Overflow(f) ==
    IF f.cls # "finite" THEN f
    ELSE IF f.num > MaxFloat64 * f.den THEN PosInf
    ELSE IF f.num < -MaxFloat64 * f.den THEN NegInf
    ELSE f

\* -f
FNeg(f) ==
    CASE f.cls = "NaN" -> NaN
      [] f.cls = "+Inf" -> NegInf
      [] f.cls = "-Inf" -> PosInf
      [] OTHER -> Rat(-f.num, f.den)

\* a + b: Inf + (-Inf) is NaN.
FAdd(a, b) ==
    CASE a.cls = "NaN" \/ b.cls = "NaN" -> NaN
      [] a.cls = "finite" /\ b.cls = "finite" ->
             Overflow(Rat(a.num * b.den + b.num * a.den, a.den * b.den))
      [] a.cls = "finite" -> b
      [] b.cls = "finite" -> a
      [] OTHER -> IF a.cls = b.cls THEN a ELSE NaN

\* a - b
FSub(a, b) == FAdd(a, FNeg(b))

\* a * b: Inf * 0 is NaN.
FMul(a, b) ==
    CASE a.cls = "NaN" \/ b.cls = "NaN" -> NaN
      [] a.cls = "finite" /\ b.cls = "finite" ->
             Overflow(Rat(a.num * b.num, a.den * b.den))
      [] OTHER -> IF Sign(a) * Sign(b) = 0 THEN NaN ELSE Inf(Sign(a) * Sign(b))

\* a / b: 0/0 and Inf/Inf are NaN, x/0 is an infinity, x/Inf is 0.
FDiv(a, b) ==
    CASE a.cls = "NaN" \/ b.cls = "NaN" -> NaN
      [] a.cls = "finite" /\ b.cls = "finite" ->
             IF b.num # 0 THEN Overflow(Rat(a.num * b.den, a.den * b.num))
             ELSE IF a.num = 0 THEN NaN ELSE Inf(Sign(a))
      [] a.cls = "finite" -> Fin(0)
      [] b.cls = "finite" -> Inf(Sign(a) * (IF Sign(b) < 0 THEN -1 ELSE 1))
      [] OTHER -> NaN

\* a < b: false when either is NaN.
FLess(a, b) ==
    CASE a.cls = "NaN" \/ b.cls = "NaN" -> FALSE
      [] a.cls = "finite" /\ b.cls = "finite" ->
             a.num * b.den < b.num * a.den
      [] OTHER -> a.cls # b.cls /\ (a.cls = "-Inf" \/ b.cls = "+Inf")

\* a > b, a <= b
FGreater(a, b) == FLess(b, a)
FLessEq(a, b) == a.cls # "NaN" /\ b.cls # "NaN" /\ ~FLess(b, a)

\* a == b: false when either is NaN.
FEq(a, b) == a.cls # "NaN" /\ b.cls # "NaN" /\ a = b

\* The values pushed in SpecRB: two finite values (neither is the 0.0 that
\* make() fills the array with), and the three special values.
PushValues == {Fin(1), Fin(2), NaN, PosInf, NegInf}

\* ---------------------------------------------------------- RingBuffer

\* buffer.New(capacity): data is make([]float64, capacity), all 0.0;
\* head and size start at 0.
New(capacity) ==
    [data |-> [i \in 0..(capacity - 1) |-> Fin(0)],
     capacity |-> capacity,
     head |-> 0,
     size |-> 0]

\* (*RingBuffer).Push that, once the buffer is full, writes over the newest
\* value and leaves head where it is.
PushOverNewest(b, value) ==
    IF b.size < b.capacity
    THEN [b EXCEPT !.data[b.head] = value,
                   !.head = (b.head + 1) % b.capacity,
                   !.size = b.size + 1]
    ELSE [b EXCEPT !.data[(b.head - 1 + b.capacity) % b.capacity] = value]

\* (*RingBuffer).Push with the filter of Update in front of it: NaN and the
\* infinities are dropped.
PushFiniteOnly(b, value) ==
    IF IsNaN(value) \/ IsInf(value, 0)
    THEN b
    ELSE [b EXCEPT !.data[b.head] = value,
                   !.head = (b.head + 1) % b.capacity,
                   !.size = IF b.size < b.capacity THEN b.size + 1 ELSE b.size]

\* (*RingBuffer).Push
Push(b, value) ==
    [b EXCEPT !.data[b.head] = value,
              !.head = (b.head + 1) % b.capacity,
              !.size = IF b.size < b.capacity THEN b.size + 1 ELSE b.size]

\* start := rb.head, the wrap-around offset left out.
ValuesFromHead(b) ==
    IF b.size = 0
    THEN <<>>
    ELSE [i \in 1..b.size |-> b.data[(b.head + (i - 1)) % b.capacity]]

\* (*RingBuffer).Values filling result from the newest value to the oldest.
ValuesNewestFirst(b) ==
    IF b.size = 0
    THEN <<>>
    ELSE LET start == (b.head - b.size + b.capacity) % b.capacity
         IN  [i \in 1..b.size |->
                 b.data[(start + (b.size - i)) % b.capacity]]

\* (*RingBuffer).Values: nil (the empty sequence) when empty, else a new
\* slice of size elements read from start, wrapping. Slice index i of the
\* code is index i + 1 of the sequence.
Values(b) ==
    IF b.size = 0
    THEN <<>>
    ELSE LET start == (b.head - b.size + b.capacity) % b.capacity
         IN  [i \in 1..b.size |-> b.data[(start + (i - 1)) % b.capacity]]

\* (*RingBuffer).Len
BufLen(b) == b.size

\* idx := rb.head, the "- 1" left out.
LatestAtHead(b) ==
    IF b.size = 0
    THEN [value |-> Fin(0), ok |-> FALSE]
    ELSE [value |-> b.data[b.head % b.capacity], ok |-> TRUE]

\* if rb.size == 0 { return 0, false } left out.
LatestUnchecked(b) ==
    LET idx == (b.head - 1 + b.capacity) % b.capacity
    IN  [value |-> b.data[idx], ok |-> TRUE]

\* (*RingBuffer).Latest: (0, false) when empty, else (data[head-1], true).
Latest(b) ==
    IF b.size = 0
    THEN [value |-> Fin(0), ok |-> FALSE]
    ELSE LET idx == (b.head - 1 + b.capacity) % b.capacity
         IN  [value |-> b.data[idx], ok |-> TRUE]

\* The (0, false) a query returns when it has no result.
Absent == [value |-> Fin(0), ok |-> FALSE]

\* The (v, true) a query returns.
Present(v) == [value |-> v, ok |-> TRUE]

\* for _, v := range values[i-1:] { if v < min { min = v } }
RECURSIVE MinScan(_, _, _)
MinScan(values, i, min) ==
    IF i > Len(values)
    THEN min
    ELSE MinScan(values, i + 1, IF FLess(values[i], min) THEN values[i] ELSE min)

\* (*RingBuffer).Min with the loop over values[1:] left out.
MinIsFirst(b) ==
    IF b.size = 0
    THEN Absent
    ELSE LET values == Values(b) IN Present(values[1])

\* (*RingBuffer).Min
Min(b) ==
    IF b.size = 0
    THEN Absent
    ELSE LET values == Values(b) IN Present(MinScan(values, 2, values[1]))

\* for _, v := range values[i-1:] { if v > max { max = v } }
RECURSIVE MaxScan(_, _, _)
MaxScan(values, i, max) ==
    IF i > Len(values)
    THEN max
    ELSE MaxScan(values, i + 1,
                 IF FGreater(values[i], max) THEN values[i] ELSE max)

\* (*RingBuffer).Max scanning the whole of rb.data in place of Values().
MaxOverData(b) ==
    IF b.size = 0
    THEN Absent
    ELSE LET values == [i \in 1..b.capacity |-> b.data[i - 1]]
         IN  Present(MaxScan(values, 2, values[1]))

\* (*RingBuffer).Max
Max(b) ==
    IF b.size = 0
    THEN Absent
    ELSE LET values == Values(b) IN Present(MaxScan(values, 2, values[1]))

\* sum := 0.0; for i := from; i < to; i++ { sum += values[i] }, with slice
\* index i as sequence index i + 1: the sum of values[from+1 .. to].
RECURSIVE SumRange(_, _, _, _)
SumRange(values, from, to, sum) ==
    IF from >= to
    THEN sum
    ELSE SumRange(values, from + 1, to, FAdd(sum, values[from + 1]))

\* (*RingBuffer).Avg dividing by the capacity in place of len(values).
AvgOverCapacity(b) ==
    IF b.size = 0
    THEN Absent
    ELSE LET values == Values(b)
         IN  Present(FDiv(SumRange(values, 0, Len(values), Fin(0)),
                          Fin(b.capacity)))

\* (*RingBuffer).Avg with range values[1:] in place of range values.
AvgSkipsFirst(b) ==
    IF b.size = 0
    THEN Absent
    ELSE LET values == Values(b)
         IN  Present(FDiv(SumRange(values, 1, Len(values), Fin(0)),
                          Fin(Len(values))))

\* (*RingBuffer).Avg
Avg(b) ==
    IF b.size = 0
    THEN Absent
    ELSE LET values == Values(b)
         IN  Present(FDiv(SumRange(values, 0, Len(values), Fin(0)),
                          Fin(Len(values))))

\* The float64 constants of Trend: 0.05 and 0.01.
FivePercent == Rat(5, 100)
MinThreshold == Rat(1, 100)

\* windowSize of Trend without its limit of 3: n/2, at least 1.
WindowSizeHalf(n) == IF n \div 2 < 1 THEN 1 ELSE n \div 2

\* windowSize of Trend for n values: 3, or n/2 when n < 6, at least 1.
WindowSize(n) ==
    LET w == IF n < 3 * 2 THEN n \div 2 ELSE 3
    IN  IF w < 1 THEN 1 ELSE w

\* The comparison Trend ends with, the threshold left out (diff > 0).
TrendOfAnyDifference(firstAvg, lastAvg) ==
    LET diff == FSub(lastAvg, firstAvg)
    IN  IF FGreater(diff, Fin(0)) THEN 1
        ELSE IF FLess(diff, Fin(0)) THEN -1
        ELSE 0

\* The comparison Trend ends with, on the two window averages.
TrendOf(firstAvg, lastAvg) ==
    LET scaled == FMul(firstAvg, FivePercent)
        threshold == IF FLess(scaled, MinThreshold) THEN MinThreshold ELSE scaled
        diff == FSub(lastAvg, firstAvg)
    IN  IF FGreater(diff, threshold) THEN 1
        ELSE IF FLess(diff, FNeg(threshold)) THEN -1
        ELSE 0

\* (*RingBuffer).Trend: 1 up, -1 down, 0 flat.
Trend(b) ==
    IF b.size < 2
    THEN 0
    ELSE LET values == Values(b)
             n == Len(values)
             windowSize == WindowSize(n)
             firstAvg == FDiv(SumRange(values, 0, windowSize, Fin(0)),
                              Fin(windowSize))
             lastAvg == FDiv(SumRange(values, n - windowSize, n, Fin(0)),
                             Fin(windowSize))
         IN  TrendOf(firstAvg, lastAvg)

\* ------------------------------------------------- RingBuffer: calls

\* A call of a method of *RingBuffer: what it returns and the buffer the
\* receiver points to once it has returned.
Returns(ret, b) == [ret |-> ret, rb |-> b]

\* A []float64: the array its elements are stored in ("rb.data" for the
\* buffer's own array, "result" for one made by the call) and its elements.
Slice(array, elems) == [array |-> array, elems |-> elems]

\* The nil slice.
NilSlice == Slice("nil", <<>>)

\* return rb.data[:rb.size] in place of the copy.
ValuesCallNoCopy(b) ==
    IF b.size = 0
    THEN Returns(NilSlice, b)
    ELSE Returns(Slice("rb.data", [i \in 1..b.size |-> b.data[i - 1]]), b)

\* rb.Values(): nil when empty, else result := make([]float64, rb.size),
\* filled from rb.data; rb is only read.
ValuesCall(b) ==
    IF b.size = 0
    THEN Returns(NilSlice, b)
    ELSE Returns(Slice("result", Values(b)), b)

\* rb.Len(), rb.Latest(), rb.Min(), rb.Max(), rb.Avg(), rb.Trend(): each
\* reads the fields of rb or the slice rb.Values() returned.
LenCall(b) == Returns(BufLen(b), b)
LatestCall(b) == Returns(Latest(b), b)
MinCall(b) == Returns(Min(ValuesCall(b).rb), ValuesCall(b).rb)
MaxCall(b) == Returns(Max(ValuesCall(b).rb), ValuesCall(b).rb)
AvgCall(b) == Returns(Avg(ValuesCall(b).rb), ValuesCall(b).rb)
TrendCall(b) == Returns(Trend(ValuesCall(b).rb), ValuesCall(b).rb)

\* m.renderMetricCell(name) on the buffer of the graph: the label is made
\* of Latest() and, when there is a value, Len().
renderMetricCell(b) ==
    LET latest == LatestCall(b)
        points == LenCall(latest.rb)
    IN  IF latest.ret.ok
        THEN Returns(<<latest.ret.value, points.ret>>, points.rb)
        ELSE Returns(<<"no data">>, latest.rb)

\* The caller stores v in element i of the slice s that Values() returned
\* from b: the buffer after the store. Element i of rb.data[:size] is
\* data[i-1].
StoreInto(b, s, i, v) ==
    IF s.array = "rb.data" THEN [b EXCEPT !.data[i - 1] = v] ELSE b

\* ------------------------------------------- RingBuffer: order statistics

\* Median, Percentile, StdDev, CV and Rate follow the description of the
\* statistics in spec.md, section 4.1.

\* a comes before b in ascending order; NaN comes before every other value,
\* as Go's sort.Float64s orders it.
Before(a, b) == (a.cls = "NaN" /\ b.cls # "NaN") \/ FLess(a, b)

\* sorted with v inserted at its place: sorted is ascending.
RECURSIVE Insert(_, _)
Insert(sorted, v) ==
    IF sorted = <<>> THEN <<v>>
    ELSE IF Before(v, Head(sorted)) THEN <<v>> \o sorted
    ELSE <<Head(sorted)>> \o Insert(Tail(sorted), v)

\* values sorted ascending.
RECURSIVE SortAsc(_)
SortAsc(values) ==
    IF values = <<>> THEN <<>> ELSE Insert(SortAsc(Tail(values)), Head(values))

\* floor(r) and ceil(r) of a finite float64, as integers.
Floor(r) == r.num \div r.den
Ceil(r) == -((-r.num) \div r.den)

\* Percentile(p): absent when the buffer is empty, p < 0 or p > 100; else
\* the linear interpolation between the order statistics around the
\* fractional rank r = (p/100) * (n-1).
Percentile(b, p) ==
    IF b.size = 0 \/ FLess(p, Fin(0)) \/ FGreater(p, Fin(100))
    THEN Absent
    ELSE LET sorted == SortAsc(Values(b))
             n == Len(sorted)
             r == FMul(FDiv(p, Fin(100)), Fin(n - 1))
             lo == Floor(r)
             hi == Ceil(r)
             frac == FSub(r, Fin(lo))
         IN  Present(FAdd(FMul(sorted[lo + 1], FSub(Fin(1), frac)),
                          FMul(sorted[hi + 1], frac)))

\* Median(): absent when empty; the middle value of the sorted values when
\* their number is odd, else the mean of the two middle values.
Median(b) ==
    IF b.size = 0
    THEN Absent
    ELSE LET sorted == SortAsc(Values(b))
             n == Len(sorted)
         IN  IF n % 2 = 1
             THEN Present(sorted[(n + 1) \div 2])
             ELSE Present(FDiv(FAdd(sorted[n \div 2], sorted[n \div 2 + 1]),
                               Fin(2)))

\* The largest k in lo..hi with k * k <= x (lo * lo <= x < (hi+1) * (hi+1)).
RECURSIVE ISqrt(_, _, _)
ISqrt(x, lo, hi) ==
    IF lo >= hi THEN lo
    ELSE LET mid == (lo + hi + 1) \div 2
         IN  IF mid * mid <= x THEN ISqrt(x, mid, hi) ELSE ISqrt(x, lo, mid - 1)

\* math.Sqrt(f): NaN for NaN and for negative values, +Inf for +Inf; for a
\* value of at most 2000 its root rounded down to a multiple of 1/1000 (the
\* root of the whole number x of millionths in f, itself below 46341).
FSqrt(f) ==
    CASE f.cls = "NaN" \/ f.cls = "-Inf" -> NaN
      [] f.cls = "+Inf" -> PosInf
      [] OTHER ->
           IF f.num < 0 THEN NaN
           ELSE LET x == (f.num \div f.den) * 1000000
                             + ((f.num % f.den) * 1000000) \div f.den
                IN  Rat(ISqrt(x, 0, 46340), 1000)

\* The sum of (values[i] - mean)^2 over values[from+1 .. Len(values)].
RECURSIVE SumSquares(_, _, _, _)
SumSquares(values, from, mean, sum) ==
    IF from >= Len(values)
    THEN sum
    ELSE LET d == FSub(values[from + 1], mean)
         IN  SumSquares(values, from + 1, mean, FAdd(sum, FMul(d, d)))

\* StdDev(): absent when empty; the population standard deviation, the
\* squared deviations from the mean summed and divided by n.
StdDev(b) ==
    IF b.size = 0
    THEN Absent
    ELSE LET values == Values(b)
             mean == Avg(b).value
         IN  Present(FSqrt(FDiv(SumSquares(values, 0, mean, Fin(0)),
                                Fin(Len(values)))))

\* CV(): StdDev()/Avg(); absent when empty or when the mean is exactly 0.
CV(b) ==
    IF b.size = 0 \/ FEq(Avg(b).value, Fin(0))
    THEN Absent
    ELSE Present(FDiv(StdDev(b).value, Avg(b).value))

\* Rate(interval), interval counted in the unit the rate is given per:
\* absent with fewer than 2 values or interval <= 0; else the newest value
\* minus the oldest, over (n-1) * interval.
Rate(b, interval) ==
    IF b.size < 2 \/ FLessEq(interval, Fin(0))
    THEN Absent
    ELSE LET values == Values(b)
             n == Len(values)
         IN  Present(FDiv(FSub(values[n], values[1]),
                          FMul(Fin(n - 1), interval)))

\* ------------------------------------------------------ dashboardModel

\* error values: nil, and the errors a fetcher can return.
NilErr == "nil"
Errors == {"connection refused", "timeout"}

\* time.Time, relative to the current time: ZeroTime is the zero value
\* (IsZero), any other value is the time elapsed since that instant, which
\* the model stops counting at Interval. time.Now() is 0.
ZeroTime == -1
TimeNow == 0

\* The series the user selected (selectedMetrics) and one name no series has.
SelectedMetrics == <<"cpu", "mem">>
MetricNames == {"cpu", "mem", "disk"}

\* m.fetchers: one fetcher per URL.
Fetchers == <<"http://a/metrics", "http://b/metrics">>

\* fetcher.MetricData, the fields the dashboard reads.
MetricData(name, value) == [Name |-> name, Value |-> value]

\* The samples a fetch can report: finite values for both series, every
\* special value, and a sample of a series that is not tracked.
Samples ==
    {MetricData("cpu", v) : v \in {Fin(1), Fin(2), NaN, PosInf, NegInf}}
        \cup {MetricData("mem", Fin(1)), MetricData("disk", Fin(1))}

\* All sequences over S of length 0..n.
SeqsUpTo(S, n) == UNION {[1..k -> S] : k \in 0..n}

\* The messages Update handles.
TickMsg == [type |-> "tickMsg"]
MetricsMsg(data, err) == [type |-> "metricsMsg", data |-> data, err |-> err]
KeyMsg(key) == [type |-> "KeyMsg", key |-> key]
WindowSizeMsg(width, height) ==
    [type |-> "WindowSizeMsg", Width |-> width, Height |-> height]
Keys == {"q", "ctrl+c", "x"}

\* A tea.Cmd is the sequence of the commands it runs: nil is <<>>, a
\* tea.Batch is the sequence of its members.
NoCmd == <<>>
QuitCmd == <<"Quit">>

\* newDashboardModel: one metricGraph, holding an empty buffer, per name.
newDashboardModel(metrics) ==
    [selectedMetrics |-> metrics,
     graphs |-> [name \in {metrics[i] : i \in DOMAIN metrics} |->
                    New(BufferCapacity)],
     width |-> 0,
     height |-> 0,
     lastFetch |-> ZeroTime,
     lastError |-> NilErr]

\* dashboardModel.calculateGrid with rows = len / cols, rounded down.
calculateGridRoundsDown(model) ==
    LET cols == IF model.width < 80 THEN 1
                ELSE IF model.width < 160 THEN 2
                ELSE 3
    IN  [cols |-> cols, rows |-> Len(model.selectedMetrics) \div cols]

\* dashboardModel.calculateGrid: the columns and rows of the grid of charts.
calculateGrid(model) ==
    LET cols == IF model.width < 80 THEN 1
                ELSE IF model.width < 160 THEN 2
                ELSE 3
    IN  [cols |-> cols,
         rows |-> (Len(model.selectedMetrics) + cols - 1) \div cols]

\* dashboardModel.pollTick: a timer of m.interval that sends a tickMsg.
pollTick(model) == <<"pollTick">>

\* dashboardModel.fetchMetrics (the command): a goroutine that fetches.
fetchMetrics(model) == <<"fetchMetrics">>

\* Init arming the clock only: the first fetch waits for the first tick.
ModelInitTickOnly(model) == pollTick(model)

\* dashboardModel.Init: tea.Batch(m.pollTick(), m.fetchMetrics()).
ModelInit(model) == pollTick(model) \o fetchMetrics(model)

\* What one f.Fetch() returns: (data, err).
FetchResult(data, err) == [data |-> data, err |-> err]

\* The body of fetchMetrics with the loop of graphCmd.Run: a fetcher that
\* fails is passed over (continue) and the data of the others is sent.
RECURSIVE FetchAllSkipsFailed(_, _, _)
FetchAllSkipsFailed(results, i, allData) ==
    IF i > Len(results)
    THEN MetricsMsg(allData, NilErr)
    ELSE IF results[i].err # NilErr
         THEN FetchAllSkipsFailed(results, i + 1, allData)
         ELSE FetchAllSkipsFailed(results, i + 1, allData \o results[i].data)

\* The body of the command fetchMetrics returns: over the fetchers in
\* order, the first error ends the cycle with no data; otherwise the data
\* of all fetchers, concatenated. results[i] is what fetcher i returns.
RECURSIVE FetchAll(_, _, _)
FetchAll(results, i, allData) ==
    IF i > Len(results)
    THEN MetricsMsg(allData, NilErr)
    ELSE IF results[i].err # NilErr
         THEN MetricsMsg(<<>>, results[i].err)
         ELSE FetchAll(results, i + 1, allData \o results[i].data)

RunFetch(results) == FetchAll(results, 1, <<>>)

\* The loop over msg.data with math.IsInf(value, 1): only +Inf is skipped.
RECURSIVE IngestPosInfOnly(_, _)
IngestPosInfOnly(graphs, data) ==
    IF data = <<>>
    THEN graphs
    ELSE LET metric == Head(data)
             value == metric.Value
         IN  IF metric.Name \in DOMAIN graphs
             THEN IF IsNaN(value) \/ IsInf(value, 1)
                  THEN IngestPosInfOnly(graphs, Tail(data))
                  ELSE IngestPosInfOnly(
                           [graphs EXCEPT ![metric.Name] = Push(@, value)],
                           Tail(data))
             ELSE IngestPosInfOnly(graphs, Tail(data))

\* if rb, ok := m.graphs[metric.Name]; ok left out: a metric with no graph
\* gets a new one.
RECURSIVE IngestAnyName(_, _)
IngestAnyName(graphs, data) ==
    IF data = <<>>
    THEN graphs
    ELSE LET metric == Head(data)
             value == metric.Value
             b == IF metric.Name \in DOMAIN graphs
                  THEN graphs[metric.Name]
                  ELSE New(BufferCapacity)
         IN  IF IsNaN(value) \/ IsInf(value, 0)
             THEN IngestAnyName(graphs, Tail(data))
             ELSE IngestAnyName(
                      [n \in DOMAIN graphs \cup {metric.Name} |->
                          IF n = metric.Name THEN Push(b, value) ELSE graphs[n]],
                      Tail(data))

\* The loop over msg.data pushing one sample per series and cycle: a metric
\* that a later entry of the batch names again is passed over.
RECURSIVE IngestOncePerName(_, _)
IngestOncePerName(graphs, data) ==
    IF data = <<>>
    THEN graphs
    ELSE LET metric == Head(data)
             value == metric.Value
             again == \E i \in DOMAIN Tail(data) :
                          Tail(data)[i].Name = metric.Name
         IN  IF metric.Name \in DOMAIN graphs /\ ~again
             THEN IF IsNaN(value) \/ IsInf(value, 0)
                  THEN IngestOncePerName(graphs, Tail(data))
                  ELSE IngestOncePerName(
                           [graphs EXCEPT ![metric.Name] = Push(@, value)],
                           Tail(data))
             ELSE IngestOncePerName(graphs, Tail(data))

\* The loop over msg.data pushing a value only when it is greater than the
\* newest value of its buffer: a sample that arrives late is dropped.
RECURSIVE IngestSkipsOlder(_, _)
IngestSkipsOlder(graphs, data) ==
    IF data = <<>>
    THEN graphs
    ELSE LET metric == Head(data)
             value == metric.Value
             held == IF metric.Name \in DOMAIN graphs
                     THEN Values(graphs[metric.Name]) ELSE <<>>
         IN  IF metric.Name \in DOMAIN graphs
             THEN IF IsNaN(value) \/ IsInf(value, 0)
                         \/ (held # <<>> /\ ~FLess(held[Len(held)], value))
                  THEN IngestSkipsOlder(graphs, Tail(data))
                  ELSE IngestSkipsOlder(
                           [graphs EXCEPT ![metric.Name] = Push(@, value)],
                           Tail(data))
             ELSE IngestSkipsOlder(graphs, Tail(data))

\* The loop over msg.data in Update: a metric with no graph is passed over,
\* a NaN or infinite value is skipped, any other value is pushed.
RECURSIVE Ingest(_, _)
Ingest(graphs, data) ==
    IF data = <<>>
    THEN graphs
    ELSE LET metric == Head(data)
             value == metric.Value
         IN  IF metric.Name \in DOMAIN graphs
             THEN IF IsNaN(value) \/ IsInf(value, 0)
                  THEN Ingest(graphs, Tail(data))
                  ELSE Ingest([graphs EXCEPT ![metric.Name] = Push(@, value)],
                              Tail(data))
             ELSE Ingest(graphs, Tail(data))

\* Update, case tea.KeyMsg, with "q" left out of case "ctrl+c", "q".
UpdateKeyMsgCtrlCOnly(model, msg) ==
    IF msg.key \in {"ctrl+c"}
    THEN [m |-> model, cmd |-> QuitCmd]
    ELSE [m |-> model, cmd |-> NoCmd]

\* Update, case tea.KeyMsg.
UpdateKeyMsg(model, msg) ==
    IF msg.key \in {"ctrl+c", "q"}
    THEN [m |-> model, cmd |-> QuitCmd]
    ELSE [m |-> model, cmd |-> NoCmd]

\* Update, case tickMsg, re-arming the clock at once:
\* tea.Batch(m.fetchMetrics(), m.pollTick()).
UpdateTickMsgRearms(model, msg) ==
    [m |-> model, cmd |-> fetchMetrics(model) \o pollTick(model)]

\* Update, case tickMsg, stamping the model as the metricsMsg case does:
\* m.lastFetch = time.Now(); m.lastError = nil.
UpdateTickMsgStamps(model, msg) ==
    [m |-> [model EXCEPT !.lastFetch = TimeNow, !.lastError = NilErr],
     cmd |-> fetchMetrics(model)]

\* Update, case tickMsg.
UpdateTickMsg(model, msg) ==
    [m |-> model, cmd |-> fetchMetrics(model)]

\* Update, case metricsMsg, with one line changed: see each.
MetricsMsgVariant(model, msg, onError, okError, command) ==
    LET stamped == [model EXCEPT !.lastFetch = TimeNow]
        next == IF msg.err # NilErr
                THEN [stamped EXCEPT !.lastError = msg.err,
                                     !.graphs = IF onError = "reset"
                                                THEN [n \in DOMAIN @ |->
                                                         New(BufferCapacity)]
                                                ELSE @]
                ELSE [stamped EXCEPT !.lastError = IF okError = "keep"
                                                   THEN @ ELSE NilErr,
                                     !.graphs = Ingest(@, msg.data)]
    IN  [m |-> next,
         cmd |-> CASE command = "refetch" ->
                          pollTick(next) \o fetchMetrics(next)
                   [] command = "stop" /\ msg.err # NilErr -> NoCmd
                   [] OTHER -> pollTick(next)]

\* ... returning tea.Batch(m.pollTick(), m.fetchMetrics()).
UpdateMetricsMsgRefetches(model, msg) ==
    MetricsMsgVariant(model, msg, "keep", "clear", "refetch")

\* ... replacing every buffer by a new one when the fetch failed.
UpdateMetricsMsgResetsOnError(model, msg) ==
    MetricsMsgVariant(model, msg, "reset", "clear", "tick")

\* ... without "m.lastError = nil" on success.
UpdateMetricsMsgKeepsError(model, msg) ==
    MetricsMsgVariant(model, msg, "keep", "keep", "tick")

\* ... returning no command when the fetch failed.
UpdateMetricsMsgStopsOnError(model, msg) ==
    MetricsMsgVariant(model, msg, "keep", "clear", "stop")

\* Update, case metricsMsg, with m.lastFetch = time.Now() moved into the
\* branch of a fetch that succeeded.
UpdateMetricsMsgStampsOnSuccess(model, msg) ==
    LET next == IF msg.err # NilErr
                THEN [model EXCEPT !.lastError = msg.err]
                ELSE [model EXCEPT !.lastFetch = TimeNow,
                                   !.lastError = NilErr,
                                   !.graphs = Ingest(@, msg.data)]
    IN  [m |-> next, cmd |-> pollTick(next)]

\* Update, case metricsMsg.
UpdateMetricsMsg(model, msg) ==
    LET stamped == [model EXCEPT !.lastFetch = TimeNow]
        next == IF msg.err # NilErr
                THEN [stamped EXCEPT !.lastError = msg.err]
                ELSE [stamped EXCEPT !.lastError = NilErr,
                                     !.graphs = Ingest(@, msg.data)]
    IN  [m |-> next, cmd |-> pollTick(next)]

\* Update, case tea.WindowSizeMsg, returning m.fetchMetrics() so that the
\* resized charts are filled at once.
UpdateWindowSizeMsgRefetches(model, msg) ==
    [m |-> [model EXCEPT !.width = msg.Width, !.height = msg.Height],
     cmd |-> fetchMetrics(model)]

\* Update, case tea.WindowSizeMsg: width and height are kept (and the
\* charts, which are not part of this model, are resized); the switch is
\* left and "return m, nil" follows.
UpdateWindowSizeMsg(model, msg) ==
    [m |-> [model EXCEPT !.width = msg.Width, !.height = msg.Height],
     cmd |-> NoCmd]

\* dashboardModel.Update: the new model and the command. Any message of
\* another type falls through to "return m, nil".
Update(model, msg) ==
    CASE msg.type = "KeyMsg" -> UpdateKeyMsg(model, msg)
      [] msg.type = "WindowSizeMsg" -> UpdateWindowSizeMsg(model, msg)
      [] msg.type = "tickMsg" -> UpdateTickMsg(model, msg)
      [] msg.type = "metricsMsg" -> UpdateMetricsMsg(model, msg)
      [] OTHER -> [m |-> model, cmd |-> NoCmd]

\* ------------------------------------------------ metricSelectionModel

\* The keys pressed on the selection screen.
SelectionKeys == {"q", "ctrl+c", " ", "enter", "up", "down"}

\* What one URL exposes when graphCmd fetches it for the picker: some of the
\* series, each name once (nothing when the fetch fails).
Expositions ==
    {<<>>, <<"cpu">>, <<"mem">>, <<"cpu", "mem">>, <<"mem", "cpu">>,
     <<"cpu", "mem", "disk">>}

\* graphCmd.Run: allMetrics is what the URLs expose, one URL after the
\* other; "No metrics found" ends the program when it is empty.
AllMetrics ==
    {a \o b : a \in Expositions, b \in Expositions} \ {<<>>}

\* graphCmd.Run: one item per metric of allMetrics, none of them selected,
\* the cursor of the list on the first.
newSelectionModel(allMetrics) ==
    [items |-> [i \in DOMAIN allMetrics |->
                   [metric |-> [Name |-> allMetrics[i]], selected |-> FALSE]],
     index |-> 1]

\* case " ": the item under the cursor has its selected flag inverted.
ToggleSelected(s) ==
    [s EXCEPT !.items[s.index].selected = ~s.items[s.index].selected]

\* case "enter": for _, item := range m.list.Items() { if selected {
\* selectedMetrics = append(selectedMetrics, metricItem.metric.Name) } }
RECURSIVE SelectedNames(_)
SelectedNames(items) ==
    IF items = <<>>
    THEN <<>>
    ELSE (IF Head(items).selected THEN <<Head(items).metric.Name>> ELSE <<>>)
             \o SelectedNames(Tail(items))

\* m.list.Update(msg): the cursor of the list goes up or down one item and
\* stops at either end; the other keys of SelectionKeys leave it.
ListUpdate(s, key) ==
    CASE key = "up" -> [s EXCEPT !.index = IF s.index > 1 THEN s.index - 1
                                           ELSE s.index]
      [] key = "down" -> [s EXCEPT !.index = IF s.index < Len(s.items)
                                             THEN s.index + 1 ELSE s.index]
      [] OTHER -> s

\* (*metricSelectionModel).Update for a tea.KeyMsg: the screen shown next,
\* the selection model, the dashboardModel if one is returned, the command.
SelectionUpdate(s, key) ==
    CASE key \in {"ctrl+c", "q"} ->
             [screen |-> "selection", s |-> s, cmd |-> QuitCmd]
      [] key = " " ->
             [screen |-> "selection", s |-> ListUpdate(ToggleSelected(s), key),
              cmd |-> NoCmd]
      [] key = "enter" /\ Len(SelectedNames(s.items)) > 0 ->
             [screen |-> "dashboard", s |-> s, cmd |-> NoCmd]
      [] OTHER ->
             [screen |-> "selection", s |-> ListUpdate(s, key), cmd |-> NoCmd]

\* The selection screen has been left for the dashboard.
PastSelection ==
    [screen |-> "dashboard", s |-> newSelectionModel(<<>>)]

\* ------------------------------- metricSelectionModel of cmd/graph.go

\* The selection screen of cmd/graph.go keeps the selection in allItems and
\* shows it through a bubbles list that can be filtered.  The list is a
\* library: what is modelled of it is its items, its filter (state, text
\* and matching items) and its cursor.

\* The longest filter text typed.
MaxFilterLen == 2

\* The states of the filter of the list.
Unfiltered == "unfiltered"
Filtering == "filtering"
FilterApplied == "filter applied"

\* The keys pressed on the selection screen: the keys Update names, the
\* keys of the list ("/" opens the filter, esc closes it) and two letters.
PickerKeys == {"ctrl+c", "q", " ", "enter", "up", "down", "/", "esc", "c", "m"}

\* The keys that add a character to the filter text while it is typed.
FilterChars == {"q", " ", "c", "m", "/"}

\* FilterValue() of an item, letter by letter.
Letters ==
    [cpu |-> <<"c", "p", "u">>, mem |-> <<"m", "e", "m">>,
     disk |-> <<"d", "i", "s", "k">>]

\* What one URL exposes when graphCmd fetches it (nothing when it fails).
PickerExpositions == {<<>>, <<"cpu">>, <<"mem", "cpu">>}

\* graphCmd.Run: allMetrics is what the URLs expose, one URL after the
\* other; "No metrics found" ends the program when it is empty.
PickerMetrics ==
    {a \o b : a \in PickerExpositions, b \in PickerExpositions} \ {<<>>}

\* The order in which the filter of the list ranks its matches.
Ranks == {"listed", "reversed"}

\* The filter text matches the letters of a name in order, not necessarily
\* next to each other.
RECURSIVE FuzzyMatch(_, _)
FuzzyMatch(text, letters) ==
    IF text = <<>> THEN TRUE
    ELSE IF letters = <<>> THEN FALSE
    ELSE IF Head(text) = Head(letters)
         THEN FuzzyMatch(Tail(text), Tail(letters))
         ELSE FuzzyMatch(text, Tail(letters))

RECURSIVE Reversed(_)
Reversed(s) ==
    IF s = <<>> THEN <<>> ELSE Reversed(Tail(s)) \o <<Head(s)>>

\* The items of the list the filter text matches, as the list ranks them;
\* every item matches the empty text, in list order.
FilterItems(items, text, rank) ==
    LET matches == SelectSeq(items,
                       LAMBDA it : FuzzyMatch(text, Letters[it.metric.Name]))
    IN  IF text # <<>> /\ rank = "reversed" THEN Reversed(matches)
        ELSE matches

\* graphCmd.Run: one metricItem per metric, none selected, originalIdx its
\* index in allMetrics; the list holds a copy of every item.
newPicker(allMetrics, rank) ==
    LET allItems == [i \in DOMAIN allMetrics |->
                        [metric |-> [Name |-> allMetrics[i]],
                         selected |-> FALSE,
                         originalIdx |-> i - 1]]
    IN  [allItems |-> allItems,
         list |-> [items |-> allItems, filterState |-> Unfiltered,
                   filterValue |-> <<>>, filteredItems |-> <<>>,
                   cursor |-> 0, rank |-> rank]]

\* list.VisibleItems(): the matching items under a filter, else all.
VisibleItems(l) ==
    IF l.filterState # Unfiltered THEN l.filteredItems ELSE l.items

\* list.SetItems(items): the matching items are dropped under a filter
\* (the command that would compute them again is not run by Update).
SetItems(l, items) ==
    [l EXCEPT !.items = items,
              !.filteredItems = IF l.filterState # Unfiltered THEN <<>>
                                ELSE @]

\* list.SetFilterText(text): the filter is applied at once, the cursor on
\* the first match.
SetFilterText(l, text) ==
    [l EXCEPT !.filterValue = text,
              !.filteredItems = FilterItems(l.items, text, l.rank),
              !.filterState = FilterApplied,
              !.cursor = 0]

\* list.SetFilterState(state)
SetFilterState(l, state) == [l EXCEPT !.filterState = state]

\* list.Select(index)
Select(l, index) == [l EXCEPT !.cursor = index]

\* The filter of the list is closed: all items are visible again.
ResetFiltering(l) ==
    [l EXCEPT !.filterState = Unfiltered, !.filterValue = <<>>,
              !.filteredItems = <<>>]

\* m.list.Update(msg) for a key: the list and the command it returns.
PickerListUpdate(l, key) ==
    IF l.filterState = Filtering
    THEN CASE key = "ctrl+c" -> [list |-> l, cmd |-> QuitCmd]
           [] key = "esc" -> [list |-> ResetFiltering(l), cmd |-> NoCmd]
           [] key \in {"enter", "up", "down"} ->
                  [list |-> IF l.filterValue = <<>> THEN l
                            ELSE IF l.filteredItems = <<>>
                                 THEN ResetFiltering(l)
                                 ELSE [l EXCEPT !.filterState = FilterApplied],
                   cmd |-> NoCmd]
           [] key \in FilterChars /\ Len(l.filterValue) < MaxFilterLen ->
                  LET text == Append(l.filterValue, key)
                  IN  [list |-> [l EXCEPT
                                    !.filterValue = text,
                                    !.filteredItems =
                                        FilterItems(l.items, text, l.rank),
                                    !.cursor = 0],
                       cmd |-> NoCmd]
           [] OTHER -> [list |-> l, cmd |-> NoCmd]
    ELSE CASE key = "up" ->
                  [list |-> [l EXCEPT !.cursor = IF @ > 0 THEN @ - 1 ELSE @],
                   cmd |-> NoCmd]
           [] key = "down" ->
                  [list |-> [l EXCEPT !.cursor =
                                IF @ + 1 < Len(VisibleItems(l)) THEN @ + 1
                                ELSE @],
                   cmd |-> NoCmd]
           [] key = "/" ->
                  [list |-> [l EXCEPT
                                !.filterState = Filtering,
                                !.filteredItems =
                                    IF l.filterValue = <<>> THEN l.items
                                    ELSE @,
                                !.cursor = 0],
                   cmd |-> NoCmd]
           [] key = "esc" ->
                  IF l.filterState = FilterApplied
                  THEN [list |-> ResetFiltering(l), cmd |-> NoCmd]
                  ELSE [list |-> l, cmd |-> QuitCmd]
           [] key \in {"q", "ctrl+c"} -> [list |-> l, cmd |-> QuitCmd]
           [] OTHER -> [list |-> l, cmd |-> NoCmd]

\* case " ", with m.allItems[cursorIdx] = selectedItem: the position of the
\* cursor in the list instead of selectedItem.originalIdx.
ToggleAtCursor(s) ==
    LET visible == VisibleItems(s.list)
        filterValue == s.list.filterValue
        filterState == s.list.filterState
        cursorIdx == s.list.cursor
    IN  IF cursorIdx + 1 \in DOMAIN visible
        THEN LET selectedItem ==
                     [visible[cursorIdx + 1] EXCEPT !.selected = ~@]
                 allItems ==
                     [s.allItems EXCEPT ![cursorIdx + 1] = selectedItem]
                 rebuilt == SetItems(s.list, allItems)
             IN  [s EXCEPT
                     !.allItems = allItems,
                     !.list =
                         IF filterState = FilterApplied /\ filterValue # <<>>
                         THEN Select(SetFilterState(
                                         SetFilterText(rebuilt, filterValue),
                                         FilterApplied),
                                     cursorIdx)
                         ELSE rebuilt]
        ELSE s

\* case " ": the item under the cursor, inverted, replaces
\* allItems[selectedItem.originalIdx]; the list gets all items again, and
\* under an applied filter its text, its state and its cursor are restored.
Toggle(s) ==
    LET visible == VisibleItems(s.list)
        filterValue == s.list.filterValue
        filterState == s.list.filterState
        cursorIdx == s.list.cursor
    IN  IF cursorIdx + 1 \in DOMAIN visible
        THEN LET selectedItem ==
                     [visible[cursorIdx + 1] EXCEPT !.selected = ~@]
                 allItems ==
                     [s.allItems EXCEPT ![selectedItem.originalIdx + 1] =
                                            selectedItem]
                 rebuilt == SetItems(s.list, allItems)
             IN  [s EXCEPT
                     !.allItems = allItems,
                     !.list =
                         IF filterState = FilterApplied /\ filterValue # <<>>
                         THEN Select(SetFilterState(
                                         SetFilterText(rebuilt, filterValue),
                                         FilterApplied),
                                     cursorIdx)
                         ELSE rebuilt]
        ELSE s

\* case "enter", collecting the names from the visible items of the list.
selectedMetricsOfVisible(s) == SelectedNames(VisibleItems(s.list))

\* case "enter": for _, item := range m.allItems { if item.selected {
\* selectedMetrics = append(selectedMetrics, item.metric.Name) } }
selectedMetricsOf(s) == SelectedNames(s.allItems)

\* initialGraphModel(selectedMetrics)
initialGraphModel(selectedMetrics) == [selectedMetrics |-> selectedMetrics]

\* No graphModel has been built.
NoGraph == initialGraphModel(<<>>)

\* m.list, cmd = m.list.Update(msg); return m, cmd
ViaList(s, key) ==
    LET r == PickerListUpdate(s.list, key)
    IN  [screen |-> "selection", s |-> [s EXCEPT !.list = r.list],
         graph |-> NoGraph, cmd |-> r.cmd]

\* Update, if m.list.FilterState() == list.Filtering, with "q" quitting as
\* "ctrl+c" does.
UpdateWhileFilteringQuitsOnQ(s, key) ==
    IF key \in {"ctrl+c", "q"}
    THEN [screen |-> "selection", s |-> s, graph |-> NoGraph, cmd |-> QuitCmd]
    ELSE ViaList(s, key)

\* Update, if m.list.FilterState() == list.Filtering: ctrl+c quits, every
\* other key goes to the list.
UpdateWhileFiltering(s, key) ==
    IF key = "ctrl+c"
    THEN [screen |-> "selection", s |-> s, graph |-> NoGraph, cmd |-> QuitCmd]
    ELSE ViaList(s, key)

\* (*metricSelectionModel).Update for a tea.KeyMsg: the screen shown next,
\* the model, the graphModel when one is returned, the command.
PickerUpdate(s, key) ==
    IF s.list.filterState = Filtering
    THEN UpdateWhileFiltering(s, key)
    ELSE CASE key \in {"ctrl+c", "q"} ->
                  [screen |-> "selection", s |-> s, graph |-> NoGraph,
                   cmd |-> QuitCmd]
           [] key = " " -> ViaList(Toggle(s), key)
           [] key = "enter" /\ Len(selectedMetricsOf(s)) > 0 ->
                  [screen |-> "graph", s |-> s,
                   graph |-> initialGraphModel(selectedMetricsOf(s)),
                   cmd |-> NoCmd]
           [] OTHER -> ViaList(s, key)

\* graphModel.Update for a key: ctrl+c, q and esc end the program.
GraphUpdate(g, key) ==
    [graph |-> g, cmd |-> IF key \in {"ctrl+c", "q", "esc"} THEN QuitCmd
                          ELSE NoCmd]

\* --------------------------------------------------------------- state

VARIABLES
    rb,        \* SpecRB: the RingBuffer
    pushed,    \* SpecRB: every value passed to Push so far, in call order
    got,       \* SpecCalls: the slice the last call of Values() returned
    m,         \* the dashboardModel the runtime holds
    started,   \* Spec: dashboardModel.Init() has run
    quit,      \* Spec: tea.Quit has been returned, the program has ended
    timers,    \* Spec: armed tea.Tick timers: remaining time -> how many
    fetching,  \* Spec: fetchMetrics goroutines still running (SpecOverlap:
               \* their numbers)
    msgs,      \* Spec: messages sent to the program and not yet handled
    m0,        \* SpecUpdate: the model the messages of hist were applied to
               \* (SpecPicker: the screen before the last key)
    hist,      \* SpecUpdate: the messages handled so far, in order
               \* (SpecPicker: the last key pressed)
    cmd,       \* SpecUpdate: the command the last Update returned
    sel,       \* SpecSelect, SpecPicker: the screen shown and the
               \* metricSelectionModel
    fetched    \* SpecFetch: what each fetcher returned in the last cycle
               \* (SpecOverlap: the fetches issued, ended and handled)

rbVars == <<rb, pushed, got>>
loopVars == <<started, quit, timers, fetching, msgs>>
updVars == <<m0, hist, cmd>>
vars ==
    <<rb, pushed, got, m, started, quit, timers, fetching, msgs, m0, hist, cmd,
      sel, fetched>>

\* -------------------------------------------------------------- SpecRB

\* The poll loop before dashboardModel.Init() has run.
LoopIdle ==
    /\ started = FALSE
    /\ quit = FALSE
    /\ timers = [r \in 0..Interval |-> 0]
    /\ fetching = 0
    /\ msgs = <<>>
    /\ fetched = <<>>

\* No message handled yet, from the model m.
UpdateIdle ==
    /\ m0 = m
    /\ hist = <<>>
    /\ cmd = NoCmd
    /\ sel = PastSelection

InitRB ==
    /\ rb \in {New(c) : c \in 1..MaxCapacity}
    /\ pushed = <<>>
    /\ got = NilSlice
    /\ m = newDashboardModel(SelectedMetrics)
    /\ LoopIdle
    /\ UpdateIdle

\* rb.Push(v)
RBPush ==
    \E v \in PushValues :
        /\ Len(pushed) < MaxPushes
        /\ rb' = Push(rb, v)
        /\ pushed' = Append(pushed, v)
        /\ UNCHANGED <<got, m, loopVars, updVars, sel, fetched>>

NextRB == RBPush

SpecRB == InitRB /\ [][NextRB]_vars

\* ----------------------------------------------------------- SpecStats

\* The statistics of a RingBuffer as functions of its contents: the buffer
\* is filled, one Push at a time, with one of the sequences of Scripts.

\* Every sequence of up to n elements of S, the empty one included.
SeqsFromZero(S, n) == UNION {[1..k -> S] : k \in 0..n}

\* Every sequence of up to MaxStatLen of these values is pushed.
StatValues == {Fin(-1), Fin(0), Fin(1), Fin(3), NaN, PosInf, NegInf}

\* The numbers the monotonic sequences of TrendLen values are made of.
TrendNumbers == {1, 2, 3, 4, 5, 60, 61, 62, 63, 64}

\* The strictly increasing sequences of TrendLen numbers of TrendNumbers.
Increasing ==
    {s \in [1..TrendLen -> TrendNumbers] :
        \A i \in 1..(TrendLen - 1) : s[i] < s[i + 1]}

\* s back to front.
Reverse(s) == [i \in 1..Len(s) |-> s[Len(s) + 1 - i]]

\* The float64s of a sequence of integers.
Floats(s) == [i \in 1..Len(s) |-> Fin(s[i])]

\* 1.0, 2.0, ... n.0
OneTo(n) == [i \in 1..n |-> Fin(i)]

\* The values the tests of Rate and of StdDev and CV push.
RateExample == Floats(<<0, 10, 20, 30, 40>>)
StdDevExample == Floats(<<2, 4, 4, 4, 5, 5, 7, 9>>)

\* The least number of values of which Trend reads windows of 3: twice 3.
FullTrendLen == 6

\* Values on both sides of 0, of which every sequence that fills two
\* windows of 3 is pushed.
TrendValues == {Fin(-1), Fin(0), Fin(1)}

\* The largest finite values, whose sum is beyond every finite float64.
ExtremeValues == {Fin(MaxFloat64), Fin(-MaxFloat64), Fin(1)}

Scripts ==
    UNION {SeqsFromZero(StatValues, MaxStatLen),
           {RateExample, StdDevExample},
           SeqsFromZero(ExtremeValues, 2),
           [1..FullTrendLen -> TrendValues],
           {Floats(s) : s \in Increasing},
           {Floats(Reverse(s)) : s \in Increasing},
           {[i \in 1..TrendLen |-> Fin(n)] : n \in TrendNumbers},
           {[i \in 1..TrendLen |-> v] : v \in StatValues},
           {OneTo(ExampleLen), Reverse(OneTo(ExampleLen))}}

\* What has been pushed when a script is part-way through.
ScriptPrefixes == UNION {{SubSeq(s, 1, k) : k \in 0..Len(s)} : s \in Scripts}

\* The values of the scripts.
ScriptValues == UNION {{s[i] : i \in 1..Len(s)} : s \in Scripts}

InitStats ==
    /\ rb \in {New(MaxCapacity), New(StatCapacity)}
    /\ pushed = <<>>
    /\ got = NilSlice
    /\ m = newDashboardModel(SelectedMetrics)
    /\ LoopIdle
    /\ UpdateIdle

\* rb.Push(v), v the next value of a script
StatPush ==
    \E v \in ScriptValues :
        /\ Append(pushed, v) \in ScriptPrefixes
        /\ rb' = Push(rb, v)
        /\ pushed' = Append(pushed, v)
        /\ UNCHANGED <<got, m, loopVars, updVars, sel, fetched>>

NextStats == StatPush

SpecStats == InitStats /\ [][NextStats]_vars

\* ----------------------------------------------------------- SpecCalls

\* A RingBuffer and a caller that calls its methods in any order, keeps the
\* slice Values() returned and stores into it.

\* The values pushed, and the value the caller stores into a slice.
CallValues == {Fin(1), Fin(2)}
StoredValue == Fin(7)

InitCalls ==
    /\ rb \in {New(c) : c \in 1..MaxCapacity}
    /\ pushed = <<>>
    /\ got = NilSlice
    /\ m = newDashboardModel(SelectedMetrics)
    /\ LoopIdle
    /\ UpdateIdle

\* rb.Push(v)
CallPush ==
    \E v \in CallValues :
        /\ Len(pushed) < MaxPushes
        /\ rb' = Push(rb, v)
        /\ pushed' = Append(pushed, v)
        /\ UNCHANGED <<got, m, loopVars, updVars, sel, fetched>>

\* got = rb.Values()
CallValuesOf ==
    /\ rb' = ValuesCall(rb).rb
    /\ got' = ValuesCall(rb).ret
    /\ UNCHANGED <<pushed, m, loopVars, updVars, sel, fetched>>

\* A call whose result the caller only looks at.
Call(call) ==
    /\ rb' = call.rb
    /\ UNCHANGED <<pushed, got, m, loopVars, updVars, sel, fetched>>

CallLen == Call(LenCall(rb))
CallLatest == Call(LatestCall(rb))
CallMin == Call(MinCall(rb))
CallMax == Call(MaxCall(rb))
CallAvg == Call(AvgCall(rb))
CallTrend == Call(TrendCall(rb))

\* View() renders the cell of the graph.
CallView == Call(renderMetricCell(rb))

\* got[i] = v: the caller alters the sequence Values() returned.
Store ==
    \E i \in DOMAIN got.elems :
        /\ got.elems[i] # StoredValue
        /\ got' = [got EXCEPT !.elems[i] = StoredValue]
        /\ rb' = StoreInto(rb, got, i, StoredValue)
        /\ UNCHANGED <<pushed, m, loopVars, updVars, sel, fetched>>

NextCalls ==
    \/ CallPush
    \/ CallValuesOf
    \/ CallLen
    \/ CallLatest
    \/ CallMin
    \/ CallMax
    \/ CallAvg
    \/ CallTrend
    \/ CallView
    \/ Store

SpecCalls == InitCalls /\ [][NextCalls]_vars

\* ---------------------------------------------------------------- Spec
\* The bubbletea runtime around the dashboard: it runs Init() once, runs
\* every returned command in a goroutine of its own, and hands the messages
\* the commands send to Update one at a time, in the order they were sent.

\* How many times command c occurs in the tea.Cmd k.
CountCmd(k, c) == Cardinality({i \in DOMAIN k : k[i] = c})

\* The runtime runs the command k: every pollTick arms a timer of Interval,
\* every fetchMetrics starts a fetch goroutine, Quit ends the program.
Exec(k) ==
    /\ timers' = [timers EXCEPT ![Interval] = @ + CountCmd(k, "pollTick")]
    /\ fetching' = fetching + CountCmd(k, "fetchMetrics")
    /\ quit' = (quit \/ CountCmd(k, "Quit") > 0)

\* What the fetchers of one fetch cycle can return: an error, no sample,
\* or one sample.
FetcherResults ==
    {FetchResult(<<>>, e) : e \in Errors}
        \cup {FetchResult(d, NilErr) : d \in SeqsUpTo(Samples, 1)}

\* The metricsMsg values a fetch cycle over Fetchers can send.
FetchedMsgs == {RunFetch(r) : r \in [1..Len(Fetchers) -> FetcherResults]}

Init ==
    /\ m = newDashboardModel(SelectedMetrics)
    /\ LoopIdle
    /\ UpdateIdle
    /\ rb = New(1)
    /\ pushed = <<>>
    /\ got = NilSlice

\* The runtime calls m.Init() and runs the batch it returns.
Start ==
    /\ ~quit
    /\ ~started
    /\ started' = TRUE
    /\ Exec(ModelInit(m))
    /\ UNCHANGED <<m, msgs, rbVars, updVars, sel, fetched>>

\* One clock step passes. A timer fires when its time is up, so the clock
\* does not pass an expired timer; a message may wait any time to be handled.
Advance ==
    /\ ~quit
    /\ timers[0] = 0
    /\ timers' = [r \in 0..Interval |->
                     IF r < Interval THEN timers[r + 1] ELSE 0]
    /\ m' = [m EXCEPT !.lastFetch =
                IF @ = ZeroTime \/ @ >= Interval THEN @ ELSE @ + 1]
    /\ UNCHANGED <<started, quit, fetching, msgs, rbVars, updVars, sel, fetched>>

\* An expired timer sends its tickMsg.
TimerFire ==
    /\ ~quit
    /\ timers[0] > 0
    /\ timers' = [timers EXCEPT ![0] = @ - 1]
    /\ msgs' = Append(msgs, "tickMsg")
    /\ UNCHANGED <<m, started, quit, fetching, rbVars, updVars, sel, fetched>>

\* A fetch goroutine ends and sends its metricsMsg.
FetchReturn ==
    /\ ~quit
    /\ fetching > 0
    /\ fetching' = fetching - 1
    /\ msgs' = Append(msgs, "metricsMsg")
    /\ UNCHANGED <<m, started, quit, timers, rbVars, updVars, sel, fetched>>

\* The runtime hands msg to Update, keeps the returned model and runs the
\* returned command.
Handle(msg) ==
    LET r == Update(m, msg)
    IN  /\ m' = r.m
        /\ Exec(r.cmd)

\* The oldest pending message is a tickMsg: Update handles it.
HandleTick ==
    /\ ~quit
    /\ msgs # <<>>
    /\ Head(msgs) = "tickMsg"
    /\ msgs' = Tail(msgs)
    /\ Handle(TickMsg)
    /\ UNCHANGED <<started, rbVars, updVars, sel, fetched>>

\* The oldest pending message is a metricsMsg: Update handles it. What the
\* fetch found is drawn here: the fetch reads nothing of the loop's state.
HandleMetrics ==
    /\ ~quit
    /\ msgs # <<>>
    /\ Head(msgs) = "metricsMsg"
    /\ msgs' = Tail(msgs)
    /\ \E msg \in FetchedMsgs : Handle(msg)
    /\ UNCHANGED <<started, rbVars, updVars, sel, fetched>>

\* The user presses a key: Update handles the KeyMsg.
HandleKey ==
    /\ ~quit
    /\ \E key \in Keys : Handle(KeyMsg(key))
    /\ UNCHANGED <<started, msgs, rbVars, updVars, sel, fetched>>

Next ==
    \/ Start
    \/ Advance
    \/ TimerFire
    \/ FetchReturn
    \/ HandleTick
    \/ HandleMetrics
    \/ HandleKey

Spec == Init /\ [][Next]_vars

\* Every armed timer fires, every fetch returns, every message sent is
\* handled, and time passes. No key is ever bound to be pressed.
Fairness ==
    /\ WF_vars(Advance)
    /\ WF_vars(TimerFire)
    /\ WF_vars(FetchReturn)
    /\ WF_vars(HandleTick)
    /\ WF_vars(HandleMetrics)

FairSpec == Init /\ [][Next]_vars /\ Fairness

\* ---------------------------------------------------------- SpecUpdate
\* Update applied to a model the loop can hold and a message, both drawn
\* from bounded sets; after a failed fetch, one more fetch result is handled.

\* b after the values of the sequence s have been pushed, in order.
RECURSIVE PushAll(_, _)
PushAll(b, s) == IF s = <<>> THEN b ELSE PushAll(Push(b, Head(s)), Tail(s))

\* The buffers of capacity BufferCapacity reached by pushing values of
\* vals: every occupancy, every content and every position of head.
ReachedBuffers(vals) ==
    {PushAll(New(BufferCapacity), s) :
        s \in SeqsUpTo(vals, 2 * BufferCapacity - 1)}

\* The finite values the samples of a series carry.
FiniteValuesOf(name) ==
    {d.Value : d \in {x \in Samples : x.Name = name /\ x.Value.cls = "finite"}}

\* The models the loop can hold: a buffer per selected series, any error
\* state, lastFetch never set or set some time ago, the size of the window
\* not yet known.
ReachedModels ==
    {[selectedMetrics |-> SelectedMetrics,
      graphs |-> g,
      width |-> 0,
      height |-> 0,
      lastFetch |-> t,
      lastError |-> e] :
        g \in [{"cpu", "mem"} ->
                  ReachedBuffers(FiniteValuesOf("cpu"))
                      \cup ReachedBuffers(FiniteValuesOf("mem"))],
        t \in {ZeroTime, Interval},
        e \in {NilErr} \cup Errors}

\* The models drawn: those of ReachedModels whose buffers hold values of
\* their own series.
DrawnModels ==
    {x \in ReachedModels :
        \A name \in DOMAIN x.graphs :
            x.graphs[name] \in ReachedBuffers(FiniteValuesOf(name))}

\* A successful fetch: any batch of at most MaxBatch samples.
BatchMsgs == {MetricsMsg(d, NilErr) : d \in SeqsUpTo(Samples, MaxBatch)}

\* A failed fetch: no data and an error.
ErrorMsgs == {MetricsMsg(<<>>, e) : e \in Errors}

\* The terminal is resized: a narrow and a wide window.
WindowSizeMsgs == {WindowSizeMsg(79, 24), WindowSizeMsg(160, 50)}

UpdateMsgs ==
    UNION {{TickMsg}, {KeyMsg(k) : k \in Keys}, WindowSizeMsgs,
           BatchMsgs, ErrorMsgs}

InitUpdate ==
    /\ m \in DrawnModels
    /\ UpdateIdle
    /\ LoopIdle
    /\ rb = New(1)
    /\ pushed = <<>>
    /\ got = NilSlice

\* m.Update(msg): the returned model and command are kept.
Apply(msg) ==
    LET r == Update(m, msg)
    IN  /\ m' = r.m
        /\ cmd' = r.cmd
        /\ hist' = Append(hist, msg)
        /\ UNCHANGED <<m0, loopVars, rbVars, sel, fetched>>

\* The first message handled: any message.
ApplyFirst ==
    /\ hist = <<>>
    /\ \E msg \in UpdateMsgs : Apply(msg)

\* After a failed fetch, the result of the next fetch is handled.
ApplyAfterError ==
    /\ Len(hist) = 1
    /\ hist[1] \in ErrorMsgs
    /\ \E msg \in BatchMsgs \cup ErrorMsgs : Apply(msg)

NextUpdate ==
    \/ ApplyFirst
    \/ ApplyAfterError

SpecUpdate == InitUpdate /\ [][NextUpdate]_vars

\* ---------------------------------------------------------- SpecSelect

\* The program from its start: the selection screen over the metrics the
\* URLs expose, keys pressed on it, the dashboardModel that "enter" builds
\* from the selected items, and the terminal resized under the dashboard.

\* No dashboard has been built yet.
NoDashboard == newDashboardModel(<<>>)

InitSelect ==
    /\ \E allMetrics \in AllMetrics :
           sel = [screen |-> "selection", s |-> newSelectionModel(allMetrics)]
    /\ m = NoDashboard
    /\ m0 = m
    /\ hist = <<>>
    /\ cmd = NoCmd
    /\ LoopIdle
    /\ rb = New(1)
    /\ pushed = <<>>
    /\ got = NilSlice

\* A key is pressed on the selection screen and Update handles it.
SelectKey(key) ==
    /\ sel.screen = "selection"
    /\ LET r == SelectionUpdate(sel.s, key)
       IN  /\ sel' = [screen |-> r.screen, s |-> r.s]
           /\ cmd' = r.cmd
           /\ quit' = (r.cmd = QuitCmd)
           /\ m' = IF r.screen = "dashboard"
                   THEN newDashboardModel(SelectedNames(sel.s.items))
                   ELSE m
    /\ UNCHANGED <<m0, hist, started, timers, fetching, msgs, rbVars, fetched>>

\* space: the item under the cursor is selected or deselected.
SelectToggle ==
    /\ ~quit
    /\ SelectKey(" ")

\* up, down: the cursor moves.
SelectMove ==
    /\ ~quit
    /\ \E key \in {"up", "down"} : SelectKey(key)

\* enter: the dashboard is built when an item is selected.
SelectEnter ==
    /\ ~quit
    /\ SelectKey("enter")

\* q, ctrl+c: the program ends.
SelectQuit ==
    /\ ~quit
    /\ \E key \in {"q", "ctrl+c"} : SelectKey(key)

\* The widths the terminal takes: on both sides of the limits of 80 and 160
\* columns of calculateGrid.
GridWidths == {79, 80, 159, 160, 200}

\* The terminal is resized while the dashboard is shown: Update handles the
\* tea.WindowSizeMsg.
DashboardResize ==
    /\ ~quit
    /\ sel.screen = "dashboard"
    /\ \E width \in GridWidths :
           LET r == Update(m, WindowSizeMsg(width, 40))
           IN  /\ m' = r.m
               /\ cmd' = r.cmd
    /\ UNCHANGED <<sel, m0, hist, loopVars, rbVars, fetched>>

NextSelect ==
    \/ SelectToggle
    \/ SelectMove
    \/ SelectEnter
    \/ SelectQuit
    \/ DashboardResize

SpecSelect == InitSelect /\ [][NextSelect]_vars

\* ---------------------------------------------------------- SpecPicker

\* The selection screen of cmd/graph.go from the start of the program: the
\* list over the metrics the URLs expose, keys pressed on it with and
\* without a filter, and the graph view that "enter" opens.  m0 is the
\* screen before the last key and hist holds that key.

InitPicker ==
    /\ \E allMetrics \in PickerMetrics, rank \in Ranks :
           sel = [screen |-> "selection", s |-> newPicker(allMetrics, rank),
                  graph |-> NoGraph]
    /\ m0 = sel
    /\ hist = <<>>
    /\ cmd = NoCmd
    /\ m = NoDashboard
    /\ LoopIdle
    /\ rb = New(1)
    /\ pushed = <<>>
    /\ got = NilSlice

\* A key is pressed on the selection screen and Update handles it.
PickerKey(key) ==
    /\ sel.screen = "selection"
    /\ LET r == PickerUpdate(sel.s, key)
       IN  /\ sel' = [screen |-> r.screen, s |-> r.s, graph |-> r.graph]
           /\ cmd' = r.cmd
           /\ quit' = (r.cmd = QuitCmd)
    /\ m0' = sel
    /\ hist' = <<key>>
    /\ UNCHANGED <<m, started, timers, fetching, msgs, rbVars, fetched>>

\* space
PickerToggle ==
    /\ ~quit
    /\ PickerKey(" ")

\* enter
PickerEnter ==
    /\ ~quit
    /\ PickerKey("enter")

\* up, down
PickerMove ==
    /\ ~quit
    /\ \E key \in {"up", "down"} : PickerKey(key)

\* "/" opens the filter, letters are typed into it, esc closes it.
PickerFilter ==
    /\ ~quit
    /\ \E key \in {"/", "esc", "c", "m"} : PickerKey(key)

\* q, ctrl+c
PickerQuit ==
    /\ ~quit
    /\ \E key \in {"q", "ctrl+c"} : PickerKey(key)

\* A key is pressed on the graph view.
GraphKey ==
    /\ ~quit
    /\ sel.screen = "graph"
    /\ \E key \in {"q", "esc", "x"} :
           LET r == GraphUpdate(sel.graph, key)
           IN  /\ sel' = [sel EXCEPT !.graph = r.graph]
               /\ cmd' = r.cmd
               /\ quit' = (r.cmd = QuitCmd)
               /\ m0' = sel
               /\ hist' = <<key>>
    /\ UNCHANGED <<m, started, timers, fetching, msgs, rbVars, fetched>>

NextPicker ==
    \/ PickerToggle
    \/ PickerEnter
    \/ PickerMove
    \/ PickerFilter
    \/ PickerQuit
    \/ GraphKey

SpecPicker == InitPicker /\ [][NextPicker]_vars

\* ----------------------------------------------------------- SpecFetch

\* Fetch cycles one after the other: the fetchers return, the command of
\* fetchMetrics makes one metricsMsg of what they returned, and Update
\* handles it. m0 is the model before the cycle, hist its metricsMsg.

InitFetch ==
    /\ m = newDashboardModel(SelectedMetrics)
    /\ UpdateIdle
    /\ LoopIdle
    /\ rb = New(1)
    /\ pushed = <<>>
    /\ got = NilSlice

\* What a fetcher returns in these cycles: an error, no sample, or one
\* sample, finite or not, of a tracked series.
CycleSamples ==
    {MetricData("cpu", v) : v \in {Fin(1), Fin(2), NaN}}
        \cup {MetricData("mem", Fin(1))}
CycleResults ==
    {FetchResult(<<>>, e) : e \in Errors}
        \cup {FetchResult(d, NilErr) : d \in SeqsUpTo(CycleSamples, 1)}

\* One fetch cycle: results[i] is what fetcher i returns (a fetcher after a
\* failed one is not called, its result is not read).
FetchCycle ==
    \E results \in [1..Len(Fetchers) -> CycleResults] :
        LET msg == RunFetch(results)
            r == Update(m, msg)
        IN  /\ fetched' = results
            /\ m0' = m
            /\ hist' = <<msg>>
            /\ m' = r.m
            /\ cmd' = r.cmd
            /\ UNCHANGED <<sel, started, quit, timers, fetching, msgs, rbVars>>

NextFetch == FetchCycle

SpecFetch == InitFetch /\ [][NextFetch]_vars

\* --------------------------------------------- RingBuffer: properties

Min2(a, b) == IF a < b THEN a ELSE b

\* The last n elements of the sequence s, in order.
LastN(s, n) == SubSeq(s, Len(s) - n + 1, Len(s))

\* Occupancy within 0..C, Len() = min(N, C), Values() = the last min(N, C)
\* pushed values, oldest first.
RetainsLastPushes ==
    LET n == Min2(Len(pushed), rb.capacity)
    IN  /\ rb.size \in 0..rb.capacity
        /\ BufLen(rb) = n
        /\ Len(Values(rb)) = n
        /\ Values(rb) = LastN(pushed, n)

\* One Push: Len() does not decrease; on a full buffer exactly the oldest
\* retained value leaves, and the pushed value is appended.
PushEvictsOldest ==
    /\ BufLen(rb') >= BufLen(rb)
    /\ BufLen(rb) = rb.capacity =>
           Values(rb') = Append(Tail(Values(rb)), pushed'[Len(pushed')])

\* C1: for every capacity C >= 1 and every sequence of N pushes, the
\* occupancy stays within 0..C, Len() = min(N, C) and Values() is exactly
\* the last min(N, C) pushed values, oldest first; on a full buffer each
\* further Push evicts exactly the oldest retained value, and Len() never
\* decreases.
C1_PushKeepsLastValues == [](RetainsLastPushes) /\ [][PushEvictsOldest]_vars

\* A buffer of capacity 3 that has wrapped twice over: 5 pushes of which the
\* last 3, all different from their neighbours, are retained.
C1_Witness ==
    /\ rb.capacity = 3
    /\ Len(pushed) = 5
    /\ pushed[3] # pushed[4]
    /\ pushed[4] # pushed[5]
    /\ Values(rb) = <<pushed[3], pushed[4], pushed[5]>>

\* C10: on a non-empty buffer, also after wrap-around, Latest() is
\* (v, true) with v the value of the most recent Push, which is the last
\* element of Values(); on an empty buffer Latest() reports ok = false.
C10_LatestIsLastPush ==
    /\ rb.size = 0 => ~Latest(rb).ok
    /\ rb.size > 0 =>
           /\ Latest(rb).ok
           /\ Latest(rb).value = pushed[Len(pushed)]
           /\ Latest(rb).value = Values(rb)[Len(Values(rb))]

\* Latest() after wrap-around: more pushes than the capacity, the newest
\* value different from the one it overwrote and from the previous push.
C10_Witness ==
    /\ rb.capacity = 2
    /\ Len(pushed) = 3
    /\ pushed[3] # pushed[1]
    /\ pushed[3] # pushed[2]
    /\ Latest(rb).ok
    /\ Latest(rb).value = pushed[3]

\* -------------------------------------------------- Update: properties

\* The finite values that the samples of data carry for the series name,
\* in the order of data.
FiniteFor(name, data) ==
    LET Wanted(d) == d.Name = name /\ d.Value.cls = "finite"
        kept == SelectSeq(data, Wanted)
    IN  [i \in 1..Len(kept) |-> kept[i].Value]

\* data without its NaN and infinite samples.
WithoutNonFinite(data) ==
    LET Finite(d) == d.Value.cls = "finite" IN SelectSeq(data, Finite)

\* Every value a buffer stores or returns is finite.
HoldsOnlyFinite(b) ==
    /\ \A i \in DOMAIN b.data : b.data[i].cls = "finite"
    /\ \A i \in DOMAIN Values(b) : Values(b)[i].cls = "finite"

\* C2: handling FetchCompleted(batch), from any state of the loop, sets
\* lastError to nil, pushes every finite sample whose name is a tracked
\* series into that series' buffer (in batch order), records lastFetch,
\* and returns exactly one command, the one that re-arms the clock.
C2_BatchIsIngested ==
    (Len(hist) = 1 /\ hist[1] \in BatchMsgs) =>
        /\ m.lastError = NilErr
        /\ m.lastFetch = TimeNow
        /\ cmd = <<"pollTick">>
        /\ DOMAIN m.graphs = DOMAIN m0.graphs
        /\ \A name \in DOMAIN m0.graphs :
               m.graphs[name] =
                   PushAll(m0.graphs[name], FiniteFor(name, hist[1].data))

\* A batch with a sample for each series, handled by a model that showed
\* an error, had fetched before and whose cpu buffer was full: the error is
\* gone, the cpu buffer has wrapped and ends with the new sample.
C2_Witness ==
    /\ Len(hist) = 1
    /\ hist[1] = MetricsMsg(<<MetricData("mem", Fin(1)),
                              MetricData("cpu", Fin(2))>>, NilErr)
    /\ m0.lastError = "timeout"
    /\ m0.lastFetch = Interval
    /\ Values(m0.graphs["cpu"]) = [i \in 1..BufferCapacity |-> Fin(1)]
    /\ m.lastError = NilErr
    /\ m.lastFetch = TimeNow
    /\ Latest(m.graphs["cpu"]).value = Fin(2)
    /\ BufLen(m.graphs["mem"]) = BufLen(m0.graphs["mem"]) + 1
    /\ cmd = <<"pollTick">>

\* C3: handling FetchCompleted(error) sets lastError to that error, leaves
\* Values() and Len() of every series buffer as they were, and still
\* re-arms the clock.
C3_ErrorLeavesBuffers ==
    (Len(hist) = 1 /\ hist[1] \in ErrorMsgs) =>
        /\ m.lastError = hist[1].err
        /\ cmd = <<"pollTick">>
        /\ DOMAIN m.graphs = DOMAIN m0.graphs
        /\ \A name \in DOMAIN m0.graphs :
               /\ Values(m.graphs[name]) = Values(m0.graphs[name])
               /\ BufLen(m.graphs[name]) = BufLen(m0.graphs[name])

\* A failed fetch handled by a model that showed another error and held
\* samples: the new error is shown, the samples are still there.
C3_Witness ==
    /\ Len(hist) = 1
    /\ hist[1] = MetricsMsg(<<>>, "connection refused")
    /\ m0.lastError = "timeout"
    /\ m.lastError = "connection refused"
    /\ Values(m0.graphs["cpu"]) = <<Fin(1), Fin(2)>>
    /\ Values(m.graphs["cpu"]) = <<Fin(1), Fin(2)>>
    /\ cmd = <<"pollTick">>

\* C4: no series buffer of the loop ever holds NaN, +Inf or -Inf; a
\* non-finite sample of a batch is skipped without an error being set and
\* without keeping the other samples of the batch out: the batch is handled
\* as the same batch without its non-finite samples is.
C4_NonFiniteIsSkipped ==
    /\ \A name \in DOMAIN m.graphs : HoldsOnlyFinite(m.graphs[name])
    /\ (Len(hist) = 1 /\ hist[1] \in BatchMsgs) =>
           LET clean == MetricsMsg(WithoutNonFinite(hist[1].data), NilErr)
           IN  /\ m.lastError = NilErr
               /\ m = Update(m0, clean).m
               /\ cmd = Update(m0, clean).cmd

\* A batch of -Inf and then 2 for cpu, handled by a model with an empty cpu
\* buffer: the buffer holds the 2 alone, and no error is shown.
C4_Witness ==
    /\ Len(hist) = 1
    /\ hist[1] = MetricsMsg(<<MetricData("cpu", NegInf),
                              MetricData("cpu", Fin(2))>>, NilErr)
    /\ BufLen(m0.graphs["cpu"]) = 0
    /\ Values(m.graphs["cpu"]) = <<Fin(2)>>
    /\ m.lastError = NilErr

\* C5: after FetchCompleted(error) and then FetchCompleted(batch),
\* lastError is nil again and every series buffer holds what it would hold
\* had the failed cycle not happened: what it held before the failure,
\* followed by the samples of the batch.
C5_SuccessAfterFailure ==
    (Len(hist) = 2 /\ hist[1] \in ErrorMsgs /\ hist[2] \in BatchMsgs) =>
        /\ m.lastError = NilErr
        /\ \A name \in DOMAIN m0.graphs :
               LET n == Min2(BufferCapacity,
                             BufLen(m0.graphs[name])
                                 + Len(FiniteFor(name, hist[2].data)))
               IN  /\ BufLen(m.graphs[name]) = n
                   /\ Values(m.graphs[name]) =
                          LastN(Values(m0.graphs[name])
                                    \o FiniteFor(name, hist[2].data), n)

\* A failed fetch and then a batch for cpu, from a model with no error and
\* one cpu sample: no error is shown and the sample is followed by the new one.
C5_Witness ==
    /\ Len(hist) = 2
    /\ hist[1] = MetricsMsg(<<>>, "timeout")
    /\ hist[2] = MetricsMsg(<<MetricData("cpu", Fin(2))>>, NilErr)
    /\ m0.lastError = NilErr
    /\ Values(m0.graphs["cpu"]) = <<Fin(1)>>
    /\ Values(m.graphs["cpu"]) = <<Fin(1), Fin(2)>>
    /\ m.lastError = NilErr

\* The names of the series of the table, fixed by newDashboardModel.
Tracked == {SelectedMetrics[i] : i \in DOMAIN SelectedMetrics}

\* data without the samples whose name is not a tracked series.
WithoutUntracked(data) ==
    LET IsTracked(d) == d.Name \in Tracked IN SelectSeq(data, IsTracked)

\* C12: a batch entry whose name is not a tracked series is ignored: it
\* creates no series, changes no buffer and sets no error, and the table
\* has the same series in every state as at creation.
C12_UntrackedIsIgnored ==
    /\ DOMAIN m.graphs = Tracked
    /\ DOMAIN m0.graphs = Tracked
    /\ (Len(hist) = 1 /\ hist[1] \in BatchMsgs) =>
           /\ Update(m0, MetricsMsg(WithoutUntracked(hist[1].data), NilErr))
                  = [m |-> m, cmd |-> cmd]
           /\ m.lastError = NilErr
           /\ WithoutUntracked(hist[1].data) = <<>> => m.graphs = m0.graphs

\* A batch that starts with a sample of a series that is not tracked,
\* followed by one for cpu: only the cpu buffer has changed.
C12_Witness ==
    /\ Len(hist) = 1
    /\ hist[1] = MetricsMsg(<<MetricData("disk", Fin(1)),
                              MetricData("cpu", Fin(2))>>, NilErr)
    /\ "disk" \notin DOMAIN m.graphs
    /\ m.graphs["mem"] = m0.graphs["mem"]
    /\ m.graphs["cpu"] = Push(m0.graphs["cpu"], Fin(2))
    /\ BufLen(m0.graphs["cpu"]) = BufferCapacity
    /\ m.lastError = NilErr

\* ----------------------------------------------- poll loop: properties

\* Every model the poll loop reaches is one of the models SpecUpdate
\* draws (the time since lastFetch apart, which Update does not read).
LoopModelsAreDrawn ==
    [m EXCEPT !.lastFetch = IF @ = ZeroTime THEN ZeroTime ELSE Interval]
        \in DrawnModels

\* The number of armed timers.
RECURSIVE ArmedFrom(_, _)
ArmedFrom(t, r) == IF r > Interval THEN 0 ELSE t[r] + ArmedFrom(t, r + 1)
Armed(t) == ArmedFrom(t, 0)

\* The step in which Update handles the oldest pending message, a tickMsg.
TickHandled ==
    /\ msgs # <<>>
    /\ Head(msgs) = "tickMsg"
    /\ msgs' = Tail(msgs)

\* The step in which Update handles the oldest pending message, a metricsMsg.
MetricsHandled ==
    /\ msgs # <<>>
    /\ Head(msgs) = "metricsMsg"
    /\ msgs' = Tail(msgs)

\* The step in which the runtime runs Init().
StartStep == ~started /\ started'

\* C6: polling never stops. With every armed timer firing, every fetch
\* returning and every message handled, and unless the user quits, a new
\* fetch is issued again and again after Start, whatever the fetches
\* return: every FetchCompleted, failures too, is followed by a new fetch.
C6_PollingNeverStops ==
    \/ []<><<HandleTick>>_vars
    \/ <>quit
    \/ [](~started)

\* The last fetch result handled was a failure, a full interval ago, and
\* both chains have a fetch in flight again.
C6_Witness ==
    /\ m.lastError \in Errors
    /\ m.lastFetch = Interval
    /\ fetching = 2
    /\ ~quit

\* C7: handling a Tick issues exactly one new fetch, arms no timer and
\* leaves buffers, lastError and lastFetch as they were; a timer is armed
\* only by the handling of a FetchCompleted, and once at Start.
C7_TickOnlyFetches ==
    [][/\ TickHandled =>
              /\ fetching' = fetching + 1
              /\ timers' = timers
              /\ m' = m
              /\ quit' = quit
       /\ Armed(timers') > Armed(timers) => (MetricsHandled \/ StartStep)
      ]_vars

\* Two fetches in flight and no timer armed: the tick of the timer armed at
\* Start was handled while the fetch issued at Start was still running.
C7_Witness ==
    /\ fetching = 2
    /\ Armed(timers) = 0
    /\ msgs = <<>>
    /\ m.lastFetch = ZeroTime

\* C8: every fetch a Tick triggers is issued no sooner than one full
\* interval after the most recently completed fetch was handled.
C8_TickAfterFullInterval ==
    [][TickHandled => (m.lastFetch = ZeroTime \/ m.lastFetch >= Interval)]_vars

\* C9: at Start, Init issues a fetch and arms the clock in the same step,
\* so the first fetch does not wait for the first tick.
C9_InitFetchesAndArms ==
    [][StartStep =>
           /\ fetching' = fetching + 1
           /\ timers' = [timers EXCEPT ![Interval] = @ + 1]
           /\ Armed(timers') = Armed(timers) + 1
           /\ msgs' = msgs
           /\ m' = m
      ]_vars

\* No fetch result has been handled yet, so the only timer ever armed is the
\* one of Start; it has its whole interval left, and the result of the
\* fetch issued at Start is already waiting to be ingested.
C9_Witness ==
    /\ started
    /\ m.lastFetch = ZeroTime
    /\ timers[Interval] = 1
    /\ Armed(timers) = 1
    /\ fetching = 0
    /\ msgs = <<"metricsMsg">>

\* The instant m.lastFetch records is the same after the step: lastFetch
\* is kept as the time since that instant, which a clock step adds to.
SameFetchTime ==
    \/ m'.lastFetch = m.lastFetch
    \/ m.lastFetch # ZeroTime /\ m'.lastFetch = m.lastFetch + 1

\* C13: the series buffers, lastError and lastFetch change only in the step
\* in which Update handles a metricsMsg, the oldest pending message; that
\* one step applies the whole batch of one fetch. A fetch that is running
\* or whose result is pending changes none of them.
C13_OnlyMetricsMsgChangesModel ==
    [][/\ ~MetricsHandled =>
              /\ m'.graphs = m.graphs
              /\ m'.lastError = m.lastError
              /\ SameFetchTime
       /\ MetricsHandled =>
              \E msg \in FetchedMsgs :
                  /\ m' = Update(m, msg).m
                  /\ msg.err = NilErr => m'.graphs = Ingest(m.graphs, msg.data)
                  /\ msg.err # NilErr => m'.graphs = m.graphs]_vars

\* A batch has been ingested and was followed by a failed fetch, while one
\* more result is pending and another fetch is still running.
C13_Witness ==
    /\ BufLen(m.graphs["cpu"]) > 0
    /\ m.lastError # NilErr
    /\ fetching > 0
    /\ msgs # <<>>
    /\ Head(msgs) = "metricsMsg"

\* The keys that quit the dashboard.
QuitKeys == {"q", "ctrl+c"}

\* C15: a quit key (q or ctrl+c) makes Update return the quit command at
\* once, whatever timers are armed and fetches in flight: the step that
\* quits waits for no fetch, drops no pending message and leaves the
\* buffers, lastError and lastFetch as they were.
C15_QuitKeyQuitsAtOnce ==
    /\ [](\A key \in QuitKeys :
             Update(m, KeyMsg(key)) = [m |-> m, cmd |-> QuitCmd])
    /\ [](~quit => ENABLED HandleKey)
    /\ [][~quit /\ quit' =>
              /\ m' = m
              /\ msgs' = msgs
              /\ fetching' = fetching
              /\ timers' = timers]_vars

\* The program has quit while a timer was armed and a fetch was running,
\* after a batch had been ingested and a later fetch had failed.
C15_Witness ==
    /\ quit
    /\ Armed(timers) > 0
    /\ fetching > 0
    /\ BufLen(m.graphs["cpu"]) > 0
    /\ m.lastError # NilErr

\* --------------------------------------------- RingBuffer calls: properties

\* What the queries of a buffer return.
Answers(b) ==
    <<Values(b), BufLen(b), Latest(b), Min(b), Max(b), Avg(b), Trend(b),
      renderMetricCell(b).ret>>

\* C14: Values, Len, Latest, Min, Max, Avg, Trend and rendering never modify
\* a buffer: a step that is not a Push, whichever of them it calls, leaves
\* the buffer and the answer of every query as they were; and the slice
\* Values() returns is not the buffer's array, so a store into it does not
\* alter the buffer.
C14_QueriesDoNotModify ==
    /\ [](got.array # "rb.data")
    /\ [][pushed' = pushed => (rb' = rb /\ Answers(rb') = Answers(rb))]_vars
    /\ [][got'.elems # got.elems /\ got'.array = got.array => rb' = rb]_vars

\* The caller has stored into every element of the slice Values() returned
\* from a full buffer that had wrapped, and the buffer still answers with
\* the values pushed.
C14_Witness ==
    /\ Len(pushed) > rb.capacity
    /\ rb.capacity > 1
    /\ got.array = "result"
    /\ got.elems = [i \in 1..rb.capacity |-> StoredValue]
    /\ Values(rb) = LastN(pushed, rb.capacity)

\* ------------------------------------------ RingBuffer statistics: properties

\* The arguments Percentile and Rate are called with.
Percents == {Fin(-1), Fin(0), Fin(25), Fin(50), Fin(95), Fin(100), Fin(101)}
RateIntervals == {Fin(-1), Fin(0), Fin(1), Fin(2)}
NonFinite == {NaN, PosInf, NegInf}

\* C11: on a buffer that has received no Push, Values() is empty, Latest,
\* Min, Max, Avg, Median, Percentile(p), StdDev, CV and Rate(interval) are
\* absent (ok is false) for every argument, and Trend() is flat (0).
C11_EmptyBufferHasNoStatistics ==
    pushed = <<>> =>
        /\ Values(rb) = <<>>
        /\ BufLen(rb) = 0
        /\ \A r \in {Latest(rb), Min(rb), Max(rb), Avg(rb), Median(rb),
                      StdDev(rb), CV(rb)} : r.ok = FALSE
        /\ \A p \in Percents \cup NonFinite : Percentile(rb, p).ok = FALSE
        /\ \A i \in RateIntervals : Rate(rb, i).ok = FALSE
        /\ Trend(rb) = 0

\* A new buffer of the larger capacity, before any Push.
C11_Witness ==
    /\ pushed = <<>>
    /\ rb.capacity = StatCapacity
    /\ rb.size = 0
    /\ ~Latest(rb).ok
    /\ ~Percentile(rb, Fin(50)).ok

\* Each value of the sequence is less (greater) than the next one.
StrictlyIncreasing(values) ==
    \A i \in 1..(Len(values) - 1) : FLess(values[i], values[i + 1])
StrictlyDecreasing(values) ==
    \A i \in 1..(Len(values) - 1) : FGreater(values[i], values[i + 1])

\* Every value of the sequence is the same one.
Constant(values) == \A i \in DOMAIN values : values[i] = values[1]

\* The sequence holds TrendLen whole numbers.
WholeNumbers(values) ==
    /\ Len(values) = TrendLen
    /\ \A i \in DOMAIN values : values[i].cls = "finite" /\ values[i].den = 1

\* For TrendLen = 5 whole numbers the windows are the first two and the last
\* two values. With s the sum of the first two and d the sum of the last two
\* minus s, the means differ by d/2 and the threshold is max(s/40, 1/100):
\* d/2 is above it exactly when 20*d > s and 50*d > 1.
RisesBeyondThreshold(values) ==
    LET s == values[1].num + values[2].num
        d == values[TrendLen - 1].num + values[TrendLen].num - s
    IN  20 * d > s /\ 50 * d > 1
FallsBeyondThreshold(values) ==
    LET s == values[1].num + values[2].num
        d == values[TrendLen - 1].num + values[TrendLen].num - s
    IN  20 * (-d) > s /\ 50 * (-d) > 1

\* C16 as stated: Trend() is up (1) for every strictly increasing sequence
\* of 5 values, down (-1) for every strictly decreasing one, flat (0) for
\* every constant sequence and whenever the buffer holds fewer than 2 values.
C16_TrendOfMonotonic ==
    LET values == Values(rb)
    IN  /\ (Len(values) = TrendLen /\ StrictlyIncreasing(values))
               => Trend(rb) = 1
        /\ (Len(values) = TrendLen /\ StrictlyDecreasing(values))
               => Trend(rb) = -1
        /\ Constant(values) => Trend(rb) = 0
        /\ BufLen(rb) < 2 => Trend(rb) = 0

\* C16, amended: for a strictly increasing sequence of 5 whole numbers
\* Trend() is up exactly when the mean of the last two exceeds the mean of
\* the first two by more than max(5% of that mean, 0.01), and flat
\* otherwise; for a strictly decreasing one it is down exactly when it
\* falls by more than that, and flat otherwise; it is flat for every
\* constant sequence and whenever the buffer holds fewer than 2 values.
C16_TrendBeyondThreshold ==
    LET values == Values(rb)
    IN  /\ (WholeNumbers(values) /\ StrictlyIncreasing(values)) =>
               Trend(rb) = IF RisesBeyondThreshold(values) THEN 1 ELSE 0
        /\ (WholeNumbers(values) /\ StrictlyDecreasing(values)) =>
               Trend(rb) = IF FallsBeyondThreshold(values) THEN -1 ELSE 0
        /\ Constant(values) => Trend(rb) = 0
        /\ BufLen(rb) < 2 => Trend(rb) = 0

\* 60, 61, 62, 63, 64 has been pushed: the means 60.5 and 63.5 differ by 3,
\* the threshold is 3.025, and Trend() is flat.
C16_Witness ==
    /\ pushed = Floats(<<60, 61, 62, 63, 64>>)
    /\ Values(rb) = pushed
    /\ StrictlyIncreasing(Values(rb))
    /\ ~RisesBeyondThreshold(Values(rb))
    /\ Trend(rb) = 0

\* The values the buffer retains, by the history of its pushes.
Retained == LastN(pushed, Min2(Len(pushed), rb.capacity))

\* The sum of the numbers of a sequence of whole numbers.
RECURSIVE SumNums(_)
SumNums(values) ==
    IF values = <<>> THEN 0 ELSE Head(values).num + SumNums(Tail(values))

\* The retained values are whole numbers whose mean is exactly 0.
ZeroMean ==
    /\ \A i \in DOMAIN Retained :
           Retained[i].cls = "finite" /\ Retained[i].den = 1
    /\ SumNums(Retained) = 0

AllFinite(values) == \A i \in DOMAIN values : values[i].cls = "finite"

\* Percentile(0) and Percentile(100) are what Min() and Max() return.
ExtremesArePercentiles ==
    /\ Percentile(rb, Fin(0)) = Min(rb)
    /\ Percentile(rb, Fin(100)) = Max(rb)

\* C18 as stated: for every non-empty buffer, Percentile(0) equals Min() and
\* Percentile(100) equals Max().
C18_ExtremesOfAnyBuffer == BufLen(rb) > 0 => ExtremesArePercentiles

\* C18, amended: for every non-empty buffer of finite values, Percentile(0)
\* equals Min() and Percentile(100) equals Max().
C18_ExtremesOfFiniteBuffer ==
    (BufLen(rb) > 0 /\ AllFinite(Values(rb))) =>
        /\ ExtremesArePercentiles
        /\ Min(rb).ok
        /\ Max(rb).ok

\* A buffer that has wrapped and retains 3, -1, 0, in that order:
\* Percentile(0) and Min() are -1, Percentile(100) and Max() are 3.
C18_Witness ==
    /\ Len(pushed) > rb.capacity
    /\ Values(rb) = <<Fin(3), Fin(-1), Fin(0)>>
    /\ Percentile(rb, Fin(0)) = Present(Fin(-1))
    /\ Min(rb) = Present(Fin(-1))
    /\ Percentile(rb, Fin(100)) = Present(Fin(3))
    /\ Max(rb) = Present(Fin(3))

\* The elements of a sequence.
Range(values) == {values[i] : i \in DOMAIN values}

\* The order statistic of rank k (from 0) of values none of which is NaN:
\* the value with at most k values below it and more than k not above it.
OrderStat(values, k) ==
    CHOOSE x \in Range(values) :
        /\ Cardinality({i \in DOMAIN values : FLess(values[i], x)}) <= k
        /\ Cardinality({i \in DOMAIN values : FLessEq(values[i], x)}) > k

\* sorted[lo]*(1-frac) + sorted[hi]*frac for r = (p/100)*(n-1), lo = floor(r),
\* hi = ceil(r), frac = r - lo, on the order statistics of values.
Interpolated(values, p) ==
    LET n == Len(values)
        r == FMul(FDiv(p, Fin(100)), Fin(n - 1))
        lo == Floor(r)
        hi == Ceil(r)
        frac == FSub(r, Fin(lo))
    IN  FAdd(FMul(OrderStat(values, lo), FSub(Fin(1), frac)),
             FMul(OrderStat(values, hi), frac))

\* The arguments of Percents from 0 to 100.
ValidPercents == {p \in Percents : 0 <= p.num /\ p.num <= 100}

\* Percentile(p) is the interpolation between the order statistics of the
\* retained values, in whatever order they were pushed.
PercentileInterpolates ==
    \A p \in ValidPercents :
        Percentile(rb, p) = Present(Interpolated(Retained, p))

\* Whenever the values 1..10 are retained, in any order, Percentile(50) is
\* 5.5 and Percentile(95) is 9.55.
PercentilesOfOneToTen ==
    Range(Retained) = Range(OneTo(ExampleLen)) =>
        /\ Percentile(rb, Fin(50)) = Present(Rat(55, 10))
        /\ Percentile(rb, Fin(95)) = Present(Rat(955, 100))

\* With a single value retained, every valid p yields that value.
PercentileOfSingleValue ==
    Len(Retained) = 1 =>
        \A p \in ValidPercents : Percentile(rb, p) = Present(Retained[1])

MedianOf(values) ==
    LET n == Len(values)
    IN  IF n % 2 = 1
        THEN OrderStat(values, (n - 1) \div 2)
        ELSE FDiv(FAdd(OrderStat(values, n \div 2 - 1),
                       OrderStat(values, n \div 2)), Fin(2))

\* C20: for a non-empty buffer, Median() is the middle value of the retained
\* values sorted ascending when their number is odd and the mean of the two
\* middle values when it is even (NaN has no place in that order), in
\* whatever order they were pushed and over the values not yet evicted
\* only; 1..5 gives 3 and 1..4 gives 2.5.
C20_MedianIsMiddleValue ==
    /\ (BufLen(rb) > 0 /\ NaN \notin Range(Retained)) =>
           Median(rb) = Present(MedianOf(Retained))
    /\ Range(Retained) = Range(OneTo(5)) => Median(rb) = Present(Fin(3))
    /\ Range(Retained) = Range(OneTo(4)) => Median(rb) = Present(Rat(5, 2))

\* -1, 3, 1, 0 have been pushed into a buffer of capacity 3: -1 is evicted
\* and the median of 3, 1, 0 is 1 (with -1 it would be 0.5).
C20_Witness ==
    /\ pushed = <<Fin(-1), Fin(3), Fin(1), Fin(0)>>
    /\ rb.capacity = Len(pushed) - 1
    /\ Values(rb) = <<Fin(3), Fin(1), Fin(0)>>
    /\ Median(rb) = Present(Fin(1))
    /\ MedianOf(pushed) = Rat(1, 2)

\* The intervals of RateIntervals above 0.
ValidIntervals == {i \in RateIntervals : i.num > 0}

\* C21: for n >= 2 retained values and interval > 0, Rate(interval) is the
\* newest retained value minus the oldest, over (n-1) * interval: it uses
\* the two ends of the buffer and the interval only. 0, 10, 20, 30, 40
\* gives 10 at interval 1 and 5 at interval 2.
C21_RateIsEndToEndSlope ==
    LET n == Len(Retained)
    IN  /\ n >= 2 =>
               \A i \in ValidIntervals :
                   /\ Rate(rb, i) =
                          Present(FDiv(FSub(Retained[n], Retained[1]),
                                       FMul(Fin(n - 1), i)))
                   /\ (/\ Retained[1].cls = "finite"
                       /\ Retained[n].cls = "finite"
                       /\ FSub(Retained[n], Retained[1]).cls = "finite")
                          => Rate(rb, i).value =
                                 Rat(Retained[n].num * Retained[1].den
                                         - Retained[1].num * Retained[n].den,
                                     Retained[1].den * Retained[n].den
                                         * (n - 1) * i.num)
        /\ Retained = RateExample =>
               /\ Rate(rb, Fin(1)) = Present(Fin(10))
               /\ Rate(rb, Fin(2)) = Present(Fin(5))

\* 0, 10, 20, 30, 40 have been pushed into a buffer of capacity 3: it
\* retains 20, 30, 40 and the rate is 10 at interval 1, 5 at interval 2.
C21_Witness ==
    /\ pushed = RateExample
    /\ Values(rb) = Floats(<<20, 30, 40>>)
    /\ Rate(rb, Fin(1)) = Present(Fin(10))
    /\ Rate(rb, Fin(2)) = Present(Fin(5))

\* Every value of the sequence is a whole number.
AllWhole(values) ==
    \A i \in DOMAIN values :
        /\ values[i].cls = "finite"
        /\ values[i].den = 1
        /\ Abs(values[i].num) < MaxFloat64

\* The sum of the squares of a sequence of whole numbers.
RECURSIVE SumSquareNums(_)
SumSquareNums(values) ==
    IF values = <<>>
    THEN 0
    ELSE Head(values).num * Head(values).num + SumSquareNums(Tail(values))

\* The population variance of n whole numbers, in millionths rounded down:
\* the variance is (n * sum of squares - square of the sum) / n^2.
VarianceMillionths(values) ==
    LET n == Len(values)
        num == n * SumSquareNums(values) - SumNums(values) * SumNums(values)
        den == n * n
    IN  (num \div den) * 1000000 + ((num % den) * 1000000) \div den

\* f, a multiple of 1/1000, is the root of x millionths rounded down.
IsRootOfMillionths(f, x) ==
    LET k == f.num * (1000 \div f.den)
    IN  /\ f.cls = "finite"
        /\ 1000 % f.den = 0
        /\ k * k <= x
        /\ x < (k + 1) * (k + 1)

\* For whole numbers, StdDev() is the root of their population variance.
StdDevIsPopulation ==
    (BufLen(rb) > 0 /\ AllWhole(Retained)) =>
        /\ StdDev(rb).ok
        /\ IsRootOfMillionths(StdDev(rb).value, VarianceMillionths(Retained))

\* 2, 4, 4, 4, 5, 5, 7, 9 has StdDev() = 2 and CV() = StdDev()/Avg() = 0.4.
StdDevOfExample ==
    Retained = StdDevExample =>
        /\ StdDev(rb) = Present(Fin(2))
        /\ Avg(rb) = Present(Fin(5))
        /\ CV(rb) = Present(FDiv(StdDev(rb).value, Avg(rb).value))
        /\ CV(rb) = Present(Rat(4, 10))

ExtremesAreRetained ==
    /\ Min(rb).ok /\ Max(rb).ok
    /\ Min(rb).value \in Range(Retained)
    /\ Max(rb).value \in Range(Retained)
    /\ \A v \in Range(Retained) :
           FLessEq(Min(rb).value, v) /\ FLessEq(v, Max(rb).value)

\* The float64 sum of a sequence, added up from the left.
RECURSIVE SumOf(_)
SumOf(values) ==
    IF values = <<>>
    THEN Fin(0)
    ELSE FAdd(SumOf(SubSeq(values, 1, Len(values) - 1)), values[Len(values)])

\* Avg() is the sum of the retained values divided by Len(): for whole
\* numbers whose sum is a float64, the fraction sum/Len().
AvgIsSumOverLen ==
    /\ Avg(rb) = Present(FDiv(SumOf(Retained), Fin(BufLen(rb))))
    /\ BufLen(rb) = Len(Retained)
    /\ (AllWhole(Retained) /\ SumOf(Retained).cls = "finite") =>
           Avg(rb).value = Rat(SumNums(Retained), Len(Retained))

\* Min() <= Avg() <= Max()
AvgIsBetweenExtremes ==
    /\ FLessEq(Min(rb).value, Avg(rb).value)
    /\ FLessEq(Avg(rb).value, Max(rb).value)

\* C23 as stated: for any non-empty buffer of finite values, Min() is a
\* retained value that is <= every retained value, Max() is a retained
\* value that is >= every retained value, Avg() is the sum of the retained
\* values divided by Len(), and Min() <= Avg() <= Max(); values evicted by
\* wrap-around influence none of the three.
C23_AvgBetweenExtremesAlways ==
    (BufLen(rb) > 0 /\ AllFinite(Retained)) =>
        /\ ExtremesAreRetained
        /\ AvgIsSumOverLen
        /\ AvgIsBetweenExtremes

\* C23, amended: the same, with Min() <= Avg() <= Max() whenever the sum of
\* the retained values is a finite float64; a sum beyond the largest finite
\* value is an infinity, and so is Avg().
C23_AvgBetweenExtremesUnlessOverflow ==
    (BufLen(rb) > 0 /\ AllFinite(Retained)) =>
        /\ ExtremesAreRetained
        /\ AvgIsSumOverLen
        /\ SumOf(Retained).cls = "finite" => AvgIsBetweenExtremes
        /\ SumOf(Retained).cls # "finite" =>
               Avg(rb).value = SumOf(Retained)

\* -1, 3, 0, 1 has been pushed into a buffer of capacity 3: it retains
\* 3, 0, 1, so Min() is 0 and not the evicted -1, Max() is 3 and Avg() is
\* 4/3, between the two.
C23_Witness ==
    /\ pushed = <<Fin(-1), Fin(3), Fin(0), Fin(1)>>
    /\ Values(rb) = <<Fin(3), Fin(0), Fin(1)>>
    /\ Min(rb) = Present(Fin(0))
    /\ Max(rb) = Present(Fin(3))
    /\ Avg(rb) = Present(Rat(4, 3))
    /\ FLess(Min(rb).value, Avg(rb).value)
    /\ FLess(Avg(rb).value, Max(rb).value)

\* C24: Push(x) with x NaN, +Inf or -Inf stores x: Len() grows by one, up
\* to the capacity, Values() ends with x and holds it in push order with
\* the other values.
C24_PushStoresSpecialValues ==
    [][(pushed' # pushed /\ pushed'[Len(pushed')] \in NonFinite) =>
          LET x == pushed'[Len(pushed')]
              values == Values(rb')
          IN  /\ BufLen(rb') = Min2(BufLen(rb) + 1, rb.capacity)
              /\ Len(values) = BufLen(rb')
              /\ values[Len(values)] = x
              /\ values = LastN(pushed', Len(values))
              /\ SubSeq(values, 1, Len(values) - 1)
                     = LastN(Values(rb), Len(values) - 1)]_vars

\* NaN, a finite value, +Inf and -Inf have been pushed into a buffer of
\* capacity 3: it retains the finite value and the two infinities in that
\* order, NaN having been evicted like any other value.
C24_Witness ==
    /\ pushed = <<NaN, Fin(1), PosInf, NegInf>>
    /\ rb.capacity = 3
    /\ Values(rb) = <<Fin(1), PosInf, NegInf>>
    /\ BufLen(rb) = 3
    /\ IsInf(Values(rb)[2], 1) /\ IsInf(Values(rb)[3], -1)

\* --------------------------------------- metricSelectionModel: properties

\* C25: once the dashboard is shown, no name occurs twice in
\* selectedMetrics and graphs holds one buffer per selected name: there are
\* as many graphs as selected names.
C25_TrackedNamesAreASet ==
    sel.screen = "dashboard" =>
        /\ \A i, j \in DOMAIN m.selectedMetrics :
               m.selectedMetrics[i] = m.selectedMetrics[j] => i = j
        /\ DOMAIN m.graphs = Range(m.selectedMetrics)
        /\ Cardinality(DOMAIN m.graphs) = Len(m.selectedMetrics)

\* ------------------------------------------- poll loop: more properties

\* The poll activities outstanding: armed timers, fetches in flight, and
\* tickMsg and metricsMsg values sent and not yet handled.
Outstanding == Armed(timers) + fetching + Len(msgs)

\* C26: from Init() until tea.Quit there are exactly 2 poll activities
\* outstanding, the timer and the fetch Init() started, each followed by
\* one successor: the two chains never merge, multiply or die, and at most
\* 2 fetches are in flight.
C26_TwoPollChains ==
    (started /\ ~quit) =>
        /\ Outstanding = 2
        /\ fetching <= 2

\* Both chains are in their fetch: 2 fetches are in flight, no timer is
\* armed and no message is pending.
C26_Witness ==
    /\ started /\ ~quit
    /\ fetching = 2
    /\ Armed(timers) = 0
    /\ msgs = <<>>
    /\ m.lastFetch # ZeroTime

\* ------------------------------------------------ fetch cycle: properties

\* The fetchers that failed in the last cycle.
Failed == {i \in DOMAIN fetched : fetched[i].err # NilErr}

\* The first of them, in the order of m.fetchers.
FirstFailed == CHOOSE i \in Failed : \A j \in Failed : i <= j

\* The data of all fetchers, in the order of the fetchers.
RECURSIVE DataOf(_)
DataOf(results) ==
    IF results = <<>>
    THEN <<>>
    ELSE Head(results).data \o DataOf(Tail(results))

\* C27: a fetch cycle is all-or-nothing. If a fetcher fails, the metricsMsg
\* carries the error of the first that failed and no data, and no buffer
\* changes: the samples of the fetchers before are not ingested. If none
\* fails, it carries no error and the data of all fetchers in their order,
\* ingested as one batch.
C27_FetchCycleIsAllOrNothing ==
    hist # <<>> =>
        LET msg == hist[1]
        IN  /\ Failed # {} =>
                   /\ msg.err = fetched[FirstFailed].err
                   /\ msg.data = <<>>
                   /\ m.graphs = m0.graphs
                   /\ m.lastError = msg.err
            /\ Failed = {} =>
                   /\ msg.err = NilErr
                   /\ msg.data = DataOf(fetched)
                   /\ m.lastError = NilErr
                   /\ \A name \in DOMAIN m.graphs :
                          m.graphs[name] =
                              PushAll(m0.graphs[name],
                                      FiniteFor(name, DataOf(fetched)))

\* The first fetcher returned a finite sample of cpu and the second one
\* failed: the message carries the error and no data, and the buffer of
\* cpu, which holds a value of an earlier cycle, is as before.
C27_Witness ==
    /\ hist # <<>>
    /\ fetched[1] = FetchResult(<<MetricData("cpu", Fin(2))>>, NilErr)
    /\ fetched[2].err = "timeout"
    /\ hist[1] = MetricsMsg(<<>>, "timeout")
    /\ Values(m0.graphs["cpu"]) = <<Fin(1)>>
    /\ m.graphs = m0.graphs
    /\ m.lastError = "timeout"

\* The sum of the numbers of values[from .. to].
SumNumsOf(values, from, to) == SumNums(SubSeq(values, from, to))

\* Trend of n >= 2 whole numbers. The windows are the first w and the last
\* w values, w = min(3, n div 2). With s1 and s2 their sums, the means differ
\* by (s2 - s1)/w and the threshold is max(s1/(20*w), 1/100): the difference
\* is above it exactly when 20*(s2 - s1) > s1 and 100*(s2 - s1) > w.
TrendOfWhole(values) ==
    LET n == Len(values)
        w == Min2(3, n \div 2)
        s1 == SumNumsOf(values, 1, w)
        s2 == SumNumsOf(values, n - w + 1, n)
    IN  IF 20 * (s2 - s1) > s1 /\ 100 * (s2 - s1) > w THEN 1
        ELSE IF 20 * (s1 - s2) > s1 /\ 100 * (s1 - s2) > w THEN -1
        ELSE 0

\* Trend of n >= 2 whole numbers whose first window has a mean <= 0: the
\* threshold is 1/100.
TrendOfNonPositive(values) ==
    LET n == Len(values)
        w == Min2(3, n \div 2)
        s1 == SumNumsOf(values, 1, w)
        s2 == SumNumsOf(values, n - w + 1, n)
    IN  IF 100 * (s2 - s1) > w THEN 1
        ELSE IF 100 * (s1 - s2) > w THEN -1
        ELSE 0

\* C28: for n >= 2 retained values Trend() compares the mean of the first w
\* and the mean of the last w values, w = min(3, floor(n/2)) >= 1, with
\* the threshold max(0.05 * firstMean, 0.01): up iff the last mean exceeds
\* the first by more than the threshold, down iff it is below it by more
\* than the threshold, flat otherwise. The windows do not overlap, and the
\* threshold is 0.01 when the first mean is not positive.
C28_TrendComparesEndWindows ==
    LET n == Len(Retained)
        w == Min2(3, n \div 2)
    IN  n >= 2 =>
            /\ WindowSize(n) = w
            /\ w >= 1
            /\ w < n - w + 1
            /\ Trend(rb) =
                   TrendOf(FDiv(SumOf(SubSeq(Retained, 1, w)), Fin(w)),
                           FDiv(SumOf(SubSeq(Retained, n - w + 1, n)), Fin(w)))
            /\ AllWhole(Retained) =>
                   /\ Trend(rb) = TrendOfWhole(Retained)
                   /\ SumNumsOf(Retained, 1, w) <= 0 =>
                          Trend(rb) = TrendOfNonPositive(Retained)

\* -1, -1, 0, 1, -1, -1 is retained: the windows are the first 3 and the
\* last 3 values, with means -2/3 and -1/3. The first mean is negative, the
\* threshold is 0.01, and the rise of 1/3 makes Trend() up.
C28_Witness ==
    /\ Values(rb) = Floats(<<-1, -1, 0, 1, -1, -1>>)
    /\ WindowSize(BufLen(rb)) = 3
    /\ SumNumsOf(Retained, 1, 3) = -2
    /\ SumNumsOf(Retained, 4, 6) = -1
    /\ Trend(rb) = 1

\* ------------------------------------------------ Update: more properties

\* The entries of data that carry the name and a finite value.
FiniteEntries(name, data) ==
    {i \in DOMAIN data : data[i].Name = name /\ data[i].Value.cls = "finite"}

\* C29: on a successful batch with k finite entries for a tracked series,
\* the buffer of the series receives k pushes, of the values of those
\* entries in batch order: head advances by k, Len() by k up to the
\* capacity, and Values() is what was retained followed by the k values,
\* cut to the newest Len(). With k = 0 the buffer is unchanged, so the
\* buffers of two series may differ in length.
C29_OnePushPerFiniteEntry ==
    (Len(hist) = 1 /\ hist[1] \in BatchMsgs) =>
        \A name \in DOMAIN m0.graphs :
            LET before == m0.graphs[name]
                after == m.graphs[name]
                k == Cardinality(FiniteEntries(name, hist[1].data))
                all == Values(before) \o FiniteFor(name, hist[1].data)
            IN  /\ Len(FiniteFor(name, hist[1].data)) = k
                /\ after.head = (before.head + k) % before.capacity
                /\ BufLen(after) = Min2(BufLen(before) + k, before.capacity)
                /\ Values(after) = LastN(all, BufLen(after))
                /\ k = 0 => after = before

\* A batch of two finite samples of cpu and none of mem, handled by a model
\* whose buffers were empty: cpu holds both samples in batch order after
\* this one cycle and mem holds none.
C29_Witness ==
    /\ Len(hist) = 1
    /\ hist[1] = MetricsMsg(<<MetricData("cpu", Fin(2)),
                              MetricData("cpu", Fin(1))>>, NilErr)
    /\ BufLen(m0.graphs["cpu"]) = 0
    /\ BufLen(m0.graphs["mem"]) = 0
    /\ Values(m.graphs["cpu"]) = <<Fin(2), Fin(1)>>
    /\ BufLen(m.graphs["mem"]) = 0
    /\ m.graphs["mem"] = m0.graphs["mem"]

\* C30: lastFetch is set when a metricsMsg is handled, whether the fetch
\* failed or not: it is the time of the last fetch cycle that completed,
\* not of the last batch ingested. A tickMsg, a key or a resize leaves it.
C30_LastFetchOfEveryCycle ==
    hist # <<>> =>
        LET msg == hist[Len(hist)]
        IN  /\ msg.type = "metricsMsg" => m.lastFetch = TimeNow
            /\ msg.type \in {"tickMsg", "KeyMsg", "WindowSizeMsg"} =>
                   m.lastFetch = m0.lastFetch

\* A model that had fetched an interval ago handles a failed fetch: the
\* error is shown, no buffer has changed and lastFetch is the present time.
C30_Witness ==
    /\ Len(hist) = 1
    /\ hist[1] = MetricsMsg(<<>>, "timeout")
    /\ m0.lastFetch = Interval
    /\ m0.lastError = NilErr
    /\ BufLen(m0.graphs["cpu"]) > 0
    /\ m.graphs = m0.graphs
    /\ m.lastError = "timeout"
    /\ m.lastFetch = TimeNow

\* ------------------------------------- RingBuffer statistics: the median

\* Median() and Percentile(50) return the same result.
MedianIsPercentile50 == Median(rb) = Percentile(rb, Fin(50))

GridTests ==
    {<<79, 1, 1, 1>>, <<79, 3, 1, 3>>, <<80, 1, 2, 1>>, <<80, 3, 2, 2>>,
     <<159, 4, 2, 2>>, <<160, 1, 3, 1>>, <<160, 3, 3, 1>>, <<160, 4, 3, 2>>,
     <<200, 6, 3, 2>>, <<200, 7, 3, 3>>}

\* C36: calculateGrid returns 1 column for a width below 80, 2 from 80 to
\* 159 and 3 from 160 on, and the least number of rows that hold all the
\* metrics: cols * (rows - 1) < numMetrics <= cols * rows.
C36_GridHoldsAllMetrics ==
    sel.screen = "dashboard" =>
        LET grid == calculateGrid(m)
            numMetrics == Len(m.selectedMetrics)
        IN  /\ grid.cols \in {1, 2, 3}
            /\ grid.cols = 1 <=> m.width < 80
            /\ grid.cols = 2 <=> (80 <= m.width /\ m.width < 160)
            /\ grid.cols = 3 <=> m.width >= 160
            /\ numMetrics >= 1
            /\ grid.cols * (grid.rows - 1) < numMetrics
            /\ numMetrics <= grid.cols * grid.rows
            /\ \A t \in GridTests :
                   (m.width = t[1] /\ numMetrics = t[2]) =>
                       grid = [cols |-> t[3], rows |-> t[4]]

\* Four metrics are selected and the terminal is 160 columns wide: the grid
\* has 3 columns and 2 rows, the second row holding one chart.
C36_Witness ==
    /\ sel.screen = "dashboard"
    /\ Len(m.selectedMetrics) = 4
    /\ m.width = 160
    /\ m.height = 40
    /\ calculateGrid(m) = [cols |-> 3, rows |-> 2]

\* C32: a key other than q and ctrl+c leaves the model as it was, a resize
\* changes width and height only, so that every buffer, lastError and
\* lastFetch are as before; both return no command: nothing is started and
\* nothing the runtime has pending is touched.
C32_OtherKeysAndResizeAreInert ==
    Len(hist) = 1 =>
        LET msg == hist[1]
        IN  /\ (msg.type = "KeyMsg" /\ msg.key \notin QuitKeys) =>
                   /\ m = m0
                   /\ cmd = NoCmd
            /\ msg.type = "WindowSizeMsg" =>
                   /\ m = [m0 EXCEPT !.width = msg.Width,
                                     !.height = msg.Height]
                   /\ m.graphs = m0.graphs
                   /\ m.lastError = m0.lastError
                   /\ m.lastFetch = m0.lastFetch
                   /\ m.selectedMetrics = m0.selectedMetrics
                   /\ cmd = NoCmd
                   /\ CountCmd(cmd, "fetchMetrics") = 0
                   /\ CountCmd(cmd, "pollTick") = 0

\* A model that shows an error and holds samples is resized to 160 by 50:
\* width and height are the new ones and nothing else has changed.
C32_Witness ==
    /\ Len(hist) = 1
    /\ hist[1] = WindowSizeMsg(160, 50)
    /\ m0.width = 0
    /\ m0.lastError = "timeout"
    /\ m0.lastFetch = Interval
    /\ BufLen(m0.graphs["cpu"]) > 0
    /\ m.width = 160 /\ m.height = 50
    /\ m.graphs = m0.graphs
    /\ m.lastError = "timeout"
    /\ m.lastFetch = Interval
    /\ cmd = NoCmd

\* ---------------------------------------------------------------- C34

\* The names of the selected items of a list of items, in list order.
NamesInOrder(items) ==
    LET picked == SelectSeq(items, LAMBDA it : it.selected)
    IN  [i \in DOMAIN picked |-> picked[i].metric.Name]

\* The selected flags of a list of items.
Flags(items) == [i \in DOMAIN items |-> items[i].selected]

\* The last key was pressed on the selection screen.
OnSelection == hist # <<>> /\ m0.screen = "selection"

\* ... while no filter was being typed.
Browsing == OnSelection /\ m0.s.list.filterState # Filtering

\* ... while a filter was being typed.
Typing == OnSelection /\ m0.s.list.filterState = Filtering

\* An item is selected that the list under its filter does not show.
HiddenSelected(s) ==
    \E i \in DOMAIN s.allItems :
        /\ s.allItems[i].selected
        /\ \A j \in DOMAIN VisibleItems(s.list) :
               VisibleItems(s.list)[j].originalIdx # i - 1

\* C34: on the selection screen the graph view is opened only by Enter with
\* at least one item selected.  When no filter is being typed, Enter with an
\* item selected opens it with the names of all selected items of allItems
\* in their order there, items the filter hides included, and returns no
\* command; Enter with nothing selected stays on the selection screen and
\* leaves allItems as it was.
C34_EnterOpensGraphOfSelected ==
    OnSelection =>
        /\ sel.screen = "graph" =>
               /\ hist = <<"enter">>
               /\ \E i \in DOMAIN m0.s.allItems : m0.s.allItems[i].selected
        /\ (Browsing /\ hist = <<"enter">>) =>
               IF \E i \in DOMAIN m0.s.allItems : m0.s.allItems[i].selected
               THEN /\ sel.screen = "graph"
                    /\ sel.graph.selectedMetrics = NamesInOrder(m0.s.allItems)
                    /\ sel.graph.selectedMetrics # <<>>
                    /\ cmd = NoCmd
               ELSE /\ sel.screen = "selection"
                    /\ sel.s.allItems = m0.s.allItems
                    /\ Flags(sel.s.allItems) =
                           [i \in DOMAIN m0.s.allItems |-> FALSE]
                    /\ ~quit

\* Of "mem", "cpu", "cpu" the first and the last are selected, the filter
\* "c" hides the first, and Enter opens the graph view with both.
C34_Witness ==
    /\ Browsing
    /\ hist = <<"enter">>
    /\ m0.s.list.filterState = FilterApplied
    /\ m0.s.list.filterValue = <<"c">>
    /\ Len(VisibleItems(m0.s.list)) = 2
    /\ HiddenSelected(m0.s)
    /\ Flags(m0.s.allItems) = <<TRUE, FALSE, TRUE>>
    /\ sel.screen = "graph"
    /\ sel.graph.selectedMetrics = <<"mem", "cpu">>

\* ---------------------------------------------------------------- C35

\* The item the cursor of the list is on.
Highlighted(s) == VisibleItems(s.list)[s.list.cursor + 1]

\* C35: allItems[i].originalIdx = i in every state.  When no filter is being
\* typed the cursor is on an item, and Space inverts the selected flag of
\* allItems[originalIdx] of that item, which is that item, and of no other;
\* Space again gives the selection before.  While a filter is being typed
\* Space, q and Enter go to the list, which adds Space and q to the filter
\* text; allItems stays as it is and only ctrl+c quits.
C35_SpaceTogglesHighlighted ==
    /\ \A i \in DOMAIN sel.s.allItems : sel.s.allItems[i].originalIdx = i - 1
    /\ (Browsing /\ hist = <<" ">>) =>
           /\ m0.s.list.cursor + 1 \in DOMAIN VisibleItems(m0.s.list)
           /\ LET item == Highlighted(m0.s)
                  k == item.originalIdx + 1
              IN  /\ m0.s.allItems[k] = item
                  /\ Flags(sel.s.allItems) =
                         [i \in DOMAIN m0.s.allItems |->
                             IF i = k THEN ~m0.s.allItems[i].selected
                             ELSE m0.s.allItems[i].selected]
                  /\ Highlighted(sel.s) = sel.s.allItems[k]
           /\ Len(sel.s.allItems) = Len(m0.s.allItems)
           /\ \A i \in DOMAIN sel.s.allItems :
                  sel.s.allItems[i].metric = m0.s.allItems[i].metric
           /\ PickerUpdate(sel.s, " ").s.allItems = m0.s.allItems
           /\ sel.screen = "selection"
           /\ cmd = NoCmd
    /\ Typing =>
           /\ quit <=> hist = <<"ctrl+c">>
           /\ sel.screen = "selection"
           /\ sel.s.allItems = m0.s.allItems
           /\ (hist[1] \in {" ", "q"}
                   /\ Len(m0.s.list.filterValue) < MaxFilterLen) =>
                  sel.s.list.filterValue =
                      Append(m0.s.list.filterValue, hist[1])
           /\ hist[1] \in {" ", "q", "enter"} => cmd = NoCmd

\* Under the filter "c", which shows the two "cpu" of "mem", "cpu", "cpu" last
\* first, the cursor is on the first visible item and Space selects the
\* third item of allItems.
C35_Witness ==
    /\ Browsing
    /\ hist = <<" ">>
    /\ m0.s.list.filterState = FilterApplied
    /\ m0.s.list.cursor = 0
    /\ Highlighted(m0.s).originalIdx = 2
    /\ Flags(m0.s.allItems) = <<FALSE, FALSE, FALSE>>
    /\ Flags(sel.s.allItems) = <<FALSE, FALSE, TRUE>>
    /\ sel.s.list.filterState = FilterApplied
    /\ sel.s.list.cursor = 0

\* A filter is being typed, "q" has been pressed and is part of the filter
\* text, and the program goes on.
C35_TypingWitness ==
    /\ Typing
    /\ hist = <<"q">>
    /\ sel.s.list.filterValue = <<"c", "q">>
    /\ ~quit

\* --------------------------------------------------------- SpecOverlap

\* The poll loop with every fetch told apart.  The fetches are numbered in
\* the order fetchMetrics is run; fetching is the set of the fetches still
\* running, msgs holds each message with the number of the fetch that sent
\* it (0 for a tickMsg), and fetched records how many fetches were issued,
\* the order in which they ended and the metricsMsg handled so far.

\* The fetches issued in one run.
MaxFetches == 3

\* What fetch number k can send: the first fetcher reads the value k for
\* "cpu"; the second fails, reads nothing, or reads k for "mem".
FetchOutcomes(k) ==
    {RunFetch(<<FetchResult(<<MetricData("cpu", Fin(k))>>, NilErr), second>>) :
        second \in {FetchResult(<<>>, "timeout"),
                    FetchResult(<<>>, NilErr),
                    FetchResult(<<MetricData("mem", Fin(k))>>, NilErr)}}

InitOverlap ==
    /\ m = newDashboardModel(SelectedMetrics)
    /\ started = FALSE
    /\ quit = FALSE
    /\ timers = [r \in 0..Interval |-> 0]
    /\ fetching = {}
    /\ msgs = <<>>
    /\ fetched = [issued |-> 0, completed |-> <<>>, handled |-> <<>>]
    /\ UpdateIdle
    /\ rb = New(1)
    /\ pushed = <<>>
    /\ got = NilSlice

\* The runtime runs the command k: every pollTick arms a timer of Interval,
\* every fetchMetrics starts a fetch goroutine with the next number.
ExecNumbered(k) ==
    LET n == CountCmd(k, "fetchMetrics")
    IN  /\ timers' = [timers EXCEPT ![Interval] = @ + CountCmd(k, "pollTick")]
        /\ fetching' = fetching \cup
                           (fetched.issued + 1 .. fetched.issued + n)
        /\ quit' = (quit \/ CountCmd(k, "Quit") > 0)
        /\ fetched.issued + n <= MaxFetches

\* The runtime calls m.Init() and runs the batch it returns.
OverlapStart ==
    /\ ~quit
    /\ ~started
    /\ started' = TRUE
    /\ ExecNumbered(ModelInit(m))
    /\ fetched' = [fetched EXCEPT
                      !.issued = @ + CountCmd(ModelInit(m), "fetchMetrics")]
    /\ UNCHANGED <<m, msgs, rbVars, updVars, sel>>

\* An expired timer sends its tickMsg.
OverlapTimerFire ==
    /\ ~quit
    /\ timers[0] > 0
    /\ timers' = [timers EXCEPT ![0] = @ - 1]
    /\ msgs' = Append(msgs, [id |-> 0, msg |-> TickMsg])
    /\ UNCHANGED <<m, started, quit, fetching, rbVars, updVars, sel, fetched>>

\* One of the running fetches ends and sends its metricsMsg.
OverlapFetchReturn ==
    /\ ~quit
    /\ \E k \in fetching :
           /\ fetching' = fetching \ {k}
           /\ \E msg \in FetchOutcomes(k) :
                  msgs' = Append(msgs, [id |-> k, msg |-> msg])
           /\ fetched' = [fetched EXCEPT !.completed = Append(@, k)]
    /\ UNCHANGED <<m, started, quit, timers, rbVars, updVars, sel>>

\* The runtime hands the oldest pending message to Update, keeps the
\* returned model and runs the returned command.
OverlapHandle(type) ==
    /\ msgs # <<>>
    /\ Head(msgs).msg.type = type
    /\ msgs' = Tail(msgs)
    /\ LET r == Update(m, Head(msgs).msg)
       IN  /\ m' = r.m
           /\ ExecNumbered(r.cmd)
           /\ fetched' = [fetched EXCEPT
                             !.issued = @ + CountCmd(r.cmd, "fetchMetrics"),
                             !.handled = IF type = "metricsMsg"
                                         THEN Append(@, Head(msgs))
                                         ELSE @]

\* The oldest pending message is a tickMsg.
OverlapHandleTick ==
    /\ ~quit
    /\ OverlapHandle("tickMsg")
    /\ UNCHANGED <<started, rbVars, updVars, sel>>

\* The oldest pending message is a metricsMsg.
OverlapHandleMetrics ==
    /\ ~quit
    /\ OverlapHandle("metricsMsg")
    /\ UNCHANGED <<started, rbVars, updVars, sel>>

NextOverlap ==
    \/ OverlapStart
    \/ Advance
    \/ OverlapTimerFire
    \/ OverlapFetchReturn
    \/ OverlapHandleTick
    \/ OverlapHandleMetrics

SpecOverlap == InitOverlap /\ [][NextOverlap]_vars

\* ---------------------------------------------------------------- C31

\* The numbers of the fetches of a sequence of numbered messages that are
\* metricsMsg.
RECURSIVE FetchIds(_)
FetchIds(q) ==
    IF q = <<>> THEN <<>>
    ELSE (IF Head(q).id > 0 THEN <<Head(q).id>> ELSE <<>>)
             \o FetchIds(Tail(q))

\* The finite samples of a series in the metricsMsg of q, message after
\* message.
RECURSIVE BatchesOf(_, _)
BatchesOf(name, q) ==
    IF q = <<>> THEN <<>>
    ELSE FiniteFor(name, Head(q).msg.data) \o BatchesOf(name, Tail(q))

\* Two fetches were running at the same time and the one issued later ended
\* first.
Overtaken ==
    \E i, j \in DOMAIN fetched.completed :
        i < j /\ fetched.completed[i] > fetched.completed[j]

\* C31: the metricsMsg are handled in the order in which the fetches ended,
\* whatever the order in which they were issued, and every buffer holds the
\* latest samples of its series in the order in which their metricsMsg were
\* handled: the batch of a fetch that ended later comes after the batch of a
\* fetch that ended before it, also when it was issued earlier.
C31_AppendedInCompletionOrder ==
    /\ FetchIds(fetched.handled) \o FetchIds(msgs) = fetched.completed
    /\ \A name \in DOMAIN m.graphs :
           LET appended == BatchesOf(name, fetched.handled)
           IN  Values(m.graphs[name]) =
                   LastN(appended, Min2(Len(appended), BufferCapacity))
    /\ \A i, j \in DOMAIN fetched.handled :
           (/\ i < j
            /\ fetched.handled[i].msg.err = NilErr
            /\ fetched.handled[j].msg.err = NilErr
            /\ j = Len(fetched.handled)
            /\ \A k \in i + 1 .. j - 1 : fetched.handled[k].msg.err # NilErr) =>
               LET held == Values(m.graphs["cpu"])
               IN  /\ Len(held) >= 2
                   /\ held[Len(held) - 1] = Fin(fetched.handled[i].id)
                   /\ held[Len(held)] = Fin(fetched.handled[j].id)

\* Fetch 1 was still running when fetch 2 was issued, fetch 2 ended first,
\* and the buffer of "cpu" holds the sample of fetch 2 before that of fetch 1.
C31_Witness ==
    /\ fetched.completed = <<2, 1>>
    /\ FetchIds(fetched.handled) = <<2, 1>>
    /\ Overtaken
    /\ Values(m.graphs["cpu"]) = <<Fin(2), Fin(1)>>
    /\ Values(m.graphs["mem"]) = <<Fin(2), Fin(1)>>

====
